---- MODULE Spec2Model ----
(***************************************************************************)
(* Verification model of the mesh connectivity / DOF numbering code of     *)
(* include/multiphysics/femesh.h (MeshConnectivity3D, ElementMesh).        *)
(*                                                                         *)
(* C++ arrays are modelled as sequences read with a 0-based accessor       *)
(* At(a, i); flat element arrays keep the layout of the source             *)
(* (tet_verts[TET_VERTS * elem + k]).                                      *)
(***************************************************************************)
EXTENDS Integers, Sequences, FiniteSets, TLC

\* ------------------------------------------------------------------------
\* Bounds of the model
\* ------------------------------------------------------------------------

\* Number of vertices handed to the constructor (vertex ids are 0..NVerts-1).
NVerts == 8

\* Largest number of elements in an input mesh.
MaxElems == 3

\* Vertex ids the face vertex lists of the canonical-form calls are drawn
\* from (0..NFaceIds-1).
NFaceIds == 5

\* ------------------------------------------------------------------------
\* Program constants
\* ------------------------------------------------------------------------

\* std::numeric_limits<index_t>::max(): the sentinel is the largest index value;
\* the model uses the largest integer TLC represents in its place.
NO_LABEL == 2147483647

NO_INDEX == 2147483647

\* Element-type catalog (ElementTypes): counts and local tables.
TET_VERTS == 4

TET_EDGES == 6

TET_FACES == 4

HEX_VERTS == 8

HEX_EDGES == 12

HEX_FACES == 6

WEDGE_VERTS == 6

WEDGE_EDGES == 9

WEDGE_FACES == 5

WEDGE_TRI_FACES == 2

PYRMD_VERTS == 5

PYRMD_EDGES == 8

PYRMD_FACES == 5

PYRMD_TRI_FACES == 4

TET_FACE_VERTS ==
  << <<1, 2, 3>>, <<0, 3, 2>>, <<0, 1, 3>>, <<0, 2, 1>> >>

TET_EDGE_VERTS ==
  << <<0, 1>>, <<1, 2>>, <<2, 0>>, <<0, 3>>, <<1, 3>>, <<2, 3>> >>

HEX_FACE_VERTS ==
  << <<0, 4, 7, 3>>, <<1, 2, 6, 5>>, <<0, 1, 5, 4>>,
     <<3, 7, 6, 2>>, <<0, 3, 2, 1>>, <<4, 5, 6, 7>> >>

HEX_EDGE_VERTS ==
  << <<0, 1>>, <<3, 2>>, <<4, 5>>, <<7, 6>>, <<0, 3>>, <<1, 2>>,
     <<4, 7>>, <<5, 6>>, <<0, 4>>, <<1, 5>>, <<3, 7>>, <<2, 6>> >>

WEDGE_TRI_FACE_VERTS == << <<0, 1, 2>>, <<3, 4, 5>> >>

WEDGE_QUAD_FACE_VERTS ==
  << <<0, 1, 4, 3>>, <<1, 2, 5, 4>>, <<0, 3, 5, 2>> >>

WEDGE_EDGE_VERTS ==
  << <<0, 1>>, <<1, 2>>, <<2, 0>>, <<3, 4>>, <<4, 5>>, <<5, 3>>,
     <<0, 3>>, <<1, 4>>, <<2, 5>> >>

PYRMD_TRI_FACE_VERTS ==
  << <<0, 1, 4>>, <<1, 2, 4>>, <<2, 3, 4>>, <<0, 4, 3>> >>

PYRMD_QUAD_FACE_VERTS == <<0, 3, 2, 1>>

PYRMD_EDGE_VERTS ==
  << <<0, 1>>, <<1, 2>>, <<2, 3>>, <<3, 0>>,
     <<0, 4>>, <<1, 4>>, <<2, 4>>, <<3, 4>> >>

\* ------------------------------------------------------------------------
\* Array helpers
\* ------------------------------------------------------------------------

\* a[i] of a C++ array modelled as a sequence.
At(a, i) == a[i + 1]

\* a with a[i] = v.
Put(a, i, v) == [a EXCEPT ![i + 1] = v]

\* The sequence f as an array with its entries worked out.
Array(f) == f \o <<>>

\* for (i = lo; i < hi; i++) st = Body(st, i): the state after the loop.
\* The range is halved, the passes of its first half before those of its
\* second half; comparing st has it worked out before the passes start.
RECURSIVE For(_, _, _, _)
For(Body(_, _), st, lo, hi) ==
  IF lo >= hi \/ st # st THEN st
  ELSE IF hi = lo + 1 THEN Body(st, lo)
  ELSE For(Body, For(Body, st, lo, (lo + hi) \div 2), (lo + hi) \div 2, hi)

\* An array of n entries, each v.
Fill(n, v) == Array([i \in 1..n |-> v])

\* The entries of a sequence, as a set.
Range(a) == {a[i] : i \in 1..Len(a)}

RECURSIVE Flatten(_)
Flatten(ss) == IF ss = <<>> THEN <<>> ELSE Head(ss) \o Flatten(Tail(ss))

\* ------------------------------------------------------------------------
\* Input meshes
\* ------------------------------------------------------------------------

\* Vertex lists the input elements are drawn from.  They contain: tets
\* sharing a face, three tets around one edge, three tets on one face
\* (non-manifold), tets sharing only an edge, the same vertex set in
\* several local orders, pyramids with a shared base (same and twisted
\* cyclic order), a wedge and a hexahedron.
TetChoices ==
  { <<0, 1, 2, 3>>, <<1, 2, 3, 4>>, <<3, 2, 1, 4>>, <<0, 1, 3, 4>>,
    <<2, 3, 4, 5>>, <<1, 2, 3, 5>>, <<3, 0, 2, 1>>, <<5, 4, 1, 0>> }

PyrmdChoices ==
  { <<0, 1, 2, 3, 4>>, <<3, 2, 1, 0, 5>>, <<0, 2, 1, 3, 5>> }

WedgeChoices == { <<0, 1, 2, 3, 4, 5>> }

HexChoices == { <<0, 1, 2, 3, 4, 5, 6, 7>> }

\* Sequences over S of length 0..n.
SeqUpTo(S, n) == UNION {[1..k -> S] : k \in 0..n}

\* The input of the constructor: per shape, the list of elements.
Meshes ==
  { m \in [tets : SeqUpTo(TetChoices, MaxElems),
           hex : SeqUpTo(HexChoices, 1),
           wedge : SeqUpTo(WedgeChoices, 1),
           pyrmd : SeqUpTo(PyrmdChoices, MaxElems)] :
      /\ Len(m.tets) + Len(m.hex) + Len(m.wedge) + Len(m.pyrmd) >= 1
      /\ Len(m.tets) + Len(m.hex) + Len(m.wedge) + Len(m.pyrmd) <= MaxElems }

\* ------------------------------------------------------------------------
\* State
\* ------------------------------------------------------------------------

VARIABLES
  pc,                  \* position in the life cycle of the objects
  nverts, ntets, nhex, nwedge, npyrmd, nelems,
  tet_verts, hex_verts, wedge_verts, pyrmd_verts,
  vert_element_ptr, vert_elements,
  tet_faces, hex_faces, wedge_faces, pyrmd_faces,
  tri_face_elements, quad_face_elements,
  ntri_faces, nquad_faces, nfaces,
  tet_edges, hex_edges, wedge_edges, pyrmd_edges, nedges,
  call,                \* arguments and results of the call made by a client
  vert_labels, edge_labels, face_labels,  \* a client's label arrays
  Basis,               \* the basis collection ElementMesh is instantiated with
  ids, stack,          \* ElementMesh(conn): levels and order of the sweep
  face_owners, edge_owners, vert_owners,
  element_dof, element_sign, num_dof,
  loop_basis, loop_counter,   \* ElementMesh(conn): basis and counter loops
  dof_counter, dof,           \* ElementMesh(conn): next DOF, local array dof
  dof_log,             \* the entity placements of ElementMesh(conn), in order
  mat,                 \* the BSRMat object: nbrows, nbcols, nnz, rowp, cols, vals
  added,               \* the add_values calls on mat since it was zeroed
  lorder               \* the ElementMesh built by ElementMesh(mesh, proj)

inputVars ==
  <<nverts, ntets, nhex, nwedge, npyrmd, nelems,
    tet_verts, hex_verts, wedge_verts, pyrmd_verts>>

vertElemVars == <<vert_element_ptr, vert_elements>>

faceVars ==
  <<tet_faces, hex_faces, wedge_faces, pyrmd_faces,
    tri_face_elements, quad_face_elements, ntri_faces, nquad_faces, nfaces>>

edgeVars == <<tet_edges, hex_edges, wedge_edges, pyrmd_edges, nedges>>

connVars == <<inputVars, vertElemVars, faceVars, edgeVars>>

labelVars == <<vert_labels, edge_labels, face_labels>>

\* The state of the clients of the connectivity.
dofVars ==
  <<Basis, ids, stack, face_owners, edge_owners, vert_owners,
    element_dof, element_sign, num_dof, loop_basis, loop_counter,
    dof_counter, dof, dof_log>>

\* The objects built from an ElementMesh.
objVars == <<mat, added, lorder>>

clientVars == <<call, labelVars, dofVars, objVars>>

vars == <<pc, connVars, clientVars>>

\* ------------------------------------------------------------------------
\* MeshConnectivity3D: accessors
\* ------------------------------------------------------------------------

\* The shape of element elem, by the range its index falls in.
ElemKind(elem) ==
  IF elem < ntets THEN "tet"
  ELSE IF elem < ntets + nhex THEN "hex"
  ELSE IF elem < ntets + nhex + nwedge THEN "wedge"
  ELSE IF elem < ntets + nhex + nwedge + npyrmd THEN "pyrmd"
  ELSE "none"

\* The index of elem within the array of its shape.
ElemLocal(elem) ==
  IF elem < ntets THEN elem
  ELSE IF elem < ntets + nhex THEN elem - ntets
  ELSE IF elem < ntets + nhex + nwedge THEN elem - ntets - nhex
  ELSE elem - ntets - nhex - nwedge

\* n entries of array a, from offset off.
Slice(a, off, n) == [k \in 1..n |-> At(a, off + k - 1)]

get_element_verts(elem) ==
  IF elem < ntets THEN Slice(tet_verts, TET_VERTS * elem, TET_VERTS)
  ELSE IF elem < ntets + nhex
       THEN Slice(hex_verts, HEX_VERTS * (elem - ntets), HEX_VERTS)
  ELSE IF elem < ntets + nhex + nwedge
       THEN Slice(wedge_verts, WEDGE_VERTS * (elem - ntets - nhex), WEDGE_VERTS)
  ELSE IF elem < ntets + nhex + nwedge + npyrmd
       THEN Slice(pyrmd_verts, PYRMD_VERTS * (elem - ntets - nhex - nwedge),
                  PYRMD_VERTS)
  ELSE <<>>

\* The number of faces and of edges of an element.
NumElemFaces(elem) ==
  CASE ElemKind(elem) = "tet" -> TET_FACES
    [] ElemKind(elem) = "hex" -> HEX_FACES
    [] ElemKind(elem) = "wedge" -> WEDGE_FACES
    [] ElemKind(elem) = "pyrmd" -> PYRMD_FACES
    [] OTHER -> 0

NumElemEdges(elem) ==
  CASE ElemKind(elem) = "tet" -> TET_EDGES
    [] ElemKind(elem) = "hex" -> HEX_EDGES
    [] ElemKind(elem) = "wedge" -> WEDGE_EDGES
    [] ElemKind(elem) = "pyrmd" -> PYRMD_EDGES
    [] OTHER -> 0

\* The local vertex indices of local face f of an element.
FaceTable(elem, f) ==
  CASE ElemKind(elem) = "tet" -> At(TET_FACE_VERTS, f)
    [] ElemKind(elem) = "hex" -> At(HEX_FACE_VERTS, f)
    [] ElemKind(elem) = "wedge" ->
         IF f < WEDGE_TRI_FACES THEN At(WEDGE_TRI_FACE_VERTS, f)
         ELSE At(WEDGE_QUAD_FACE_VERTS, f - WEDGE_TRI_FACES)
    [] ElemKind(elem) = "pyrmd" ->
         IF f < PYRMD_TRI_FACES THEN At(PYRMD_TRI_FACE_VERTS, f)
         ELSE PYRMD_QUAD_FACE_VERTS
    [] OTHER -> <<>>

\* The vertices of local face f in the element's local order.
Gather(v, t) == [k \in 1..Len(t) |-> At(v, t[k])]

get_element_face_verts(elem, f) ==
  Gather(get_element_verts(elem), FaceTable(elem, f))

\* The local vertex indices of local edge `edge` of an element.
EdgeTable(elem, edge) ==
  CASE ElemKind(elem) = "tet" -> At(TET_EDGE_VERTS, edge)
    [] ElemKind(elem) = "hex" -> At(HEX_EDGE_VERTS, edge)
    [] ElemKind(elem) = "wedge" -> At(WEDGE_EDGE_VERTS, edge)
    [] ElemKind(elem) = "pyrmd" -> At(PYRMD_EDGE_VERTS, edge)
    [] OTHER -> <<>>

get_element_edge_verts(elem, edge) ==
  Gather(get_element_verts(elem), EdgeTable(elem, edge))

\* ------------------------------------------------------------------------
\* Construction
\* ------------------------------------------------------------------------

\* The constructor's copy of the input arrays; derived arrays are NULL.
InitMesh(m) ==
  /\ nverts = NVerts
  /\ ntets = Len(m.tets)
  /\ nhex = Len(m.hex)
  /\ nwedge = Len(m.wedge)
  /\ npyrmd = Len(m.pyrmd)
  /\ nelems = Len(m.tets) + Len(m.hex) + Len(m.wedge) + Len(m.pyrmd)
  /\ tet_verts = Flatten(m.tets)
  /\ hex_verts = Flatten(m.hex)
  /\ wedge_verts = Flatten(m.wedge)
  /\ pyrmd_verts = Flatten(m.pyrmd)
  /\ vert_element_ptr = <<>>
  /\ vert_elements = <<>>
  /\ tet_faces = <<>>
  /\ hex_faces = <<>>
  /\ wedge_faces = <<>>
  /\ pyrmd_faces = <<>>
  /\ tri_face_elements = <<>>
  /\ quad_face_elements = <<>>
  /\ ntri_faces = 0
  /\ nquad_faces = 0
  /\ nfaces = 0
  /\ tet_edges = <<>>
  /\ hex_edges = <<>>
  /\ wedge_edges = <<>>
  /\ pyrmd_edges = <<>>
  /\ nedges = 0

\* No ElementMesh exists yet.
InitDof ==
  /\ Basis = <<>>
  /\ ids = <<>>
  /\ stack = <<>>
  /\ face_owners = <<>>
  /\ edge_owners = <<>>
  /\ vert_owners = <<>>
  /\ element_dof = <<>>
  /\ element_sign = <<>>
  /\ num_dof = 0
  /\ loop_basis = 0
  /\ loop_counter = 0
  /\ dof_counter = 0
  /\ dof = <<>>
  /\ dof_log = <<>>

\* No client object exists yet.
InitClients ==
  /\ call = [op |-> "none"]
  /\ vert_labels = <<>>
  /\ edge_labels = <<>>
  /\ face_labels = <<>>
  /\ InitDof
  /\ mat = [built |-> FALSE]
  /\ added = <<>>
  /\ lorder = [built |-> FALSE]

Init ==
  /\ pc = "new"
  /\ \E m \in Meshes : InitMesh(m)
  /\ InitClients

\* init_vert_element_data: count, prefix sum, scatter, shift back.
\* The counting loop over the vertices of one element, and over the elements.
CountElemVerts(ptr, verts) ==
  For(LAMBDA p, i : Put(p, At(verts, i) + 1, At(p, At(verts, i) + 1) + 1),
      ptr, 0, Len(verts))

CountVerts(ptr) ==
  For(LAMBDA p, elem : CountElemVerts(p, get_element_verts(elem)),
      ptr, 0, nelems)

PrefixSum(ptr) ==
  For(LAMBDA p, i : Put(p, i + 1, At(p, i + 1) + At(p, i)), ptr, 0, nverts)

\* One step of the scatter loop: vertex v of elem.  st = [ptr, elems].
ScatterVert(st, elem, v) ==
  [ptr |-> Put(st.ptr, v, At(st.ptr, v) + 1),
   elems |-> Put(st.elems, At(st.ptr, v), elem)]

ScatterElemVerts(st, elem, verts) ==
  For(LAMBDA s, i : ScatterVert(s, elem, At(verts, i)), st, 0, Len(verts))

ScatterVerts(st) ==
  For(LAMBDA s, elem : ScatterElemVerts(s, elem, get_element_verts(elem)),
      st, 0, nelems)

\* Mutant of ShiftBack: the pointer array is left as the scatter loop
\* advanced it.
ShiftBack_Missing(ptr) == ptr

\* for (i = nverts; i > 0; i--) ptr[i] = ptr[i - 1]; ptr[0] = 0
ShiftBack(ptr) ==
  [i \in 1..Len(ptr) |-> IF i = 1 THEN 0 ELSE ptr[i - 1]]

VertElementData(st) == [ptr |-> ShiftBack(st.ptr), elems |-> st.elems]

ScatterFrom(summed) ==
  ScatterVerts([ptr |-> summed, elems |-> Fill(At(summed, nverts), NO_LABEL)])

init_vert_element_data ==
  VertElementData(ScatterFrom(PrefixSum(CountVerts(Fill(nverts + 1, 0)))))

InitVertElementData ==
  /\ pc = "new"
  /\ \E r \in {init_vert_element_data} :
       /\ vert_element_ptr' = r.ptr
       /\ vert_elements' = r.elems
  /\ pc' = "vert_element"
  /\ UNCHANGED <<inputVars, faceVars, edgeVars, clientVars>>

\* ------------------------------------------------------------------------
\* Faces
\* ------------------------------------------------------------------------

\* The smallest entry of a vertex list.
MinVert(t) == CHOOSE v \in Range(t) : \A w \in Range(t) : v <= w

\* Mutant of global_face_verts: the list is rotated to its smallest vertex
\* and keeps its direction.
global_face_verts_RotateOnly(t) ==
  [k \in 1..Len(t) |->
     At(t, ((CHOOSE r \in 0..(Len(t) - 1) : At(t, r) = MinVert(t)) + k - 1)
           % Len(t))]

\* The body of get_element_global_face_verts, applied to the face's local
\* vertex list t: rotate to the smallest vertex, then pick the direction.
global_face_verts(t) ==
  IF Len(t) = 3 THEN
    IF At(t, 0) < At(t, 1) /\ At(t, 0) < At(t, 2) THEN
      IF At(t, 1) < At(t, 2) THEN <<At(t, 0), At(t, 1), At(t, 2)>>
      ELSE <<At(t, 0), At(t, 2), At(t, 1)>>
    ELSE IF At(t, 1) < At(t, 0) /\ At(t, 1) < At(t, 2) THEN
      IF At(t, 2) < At(t, 0) THEN <<At(t, 1), At(t, 2), At(t, 0)>>
      ELSE <<At(t, 1), At(t, 0), At(t, 2)>>
    ELSE
      IF At(t, 0) < At(t, 1) THEN <<At(t, 2), At(t, 0), At(t, 1)>>
      ELSE <<At(t, 2), At(t, 1), At(t, 0)>>
  ELSE
    IF At(t, 0) < At(t, 1) /\ At(t, 0) < At(t, 2) /\ At(t, 0) < At(t, 3) THEN
      IF At(t, 1) < At(t, 3) THEN <<At(t, 0), At(t, 1), At(t, 2), At(t, 3)>>
      ELSE <<At(t, 0), At(t, 3), At(t, 2), At(t, 1)>>
    ELSE IF At(t, 1) < At(t, 0) /\ At(t, 1) < At(t, 2) /\ At(t, 1) < At(t, 3) THEN
      IF At(t, 2) < At(t, 0) THEN <<At(t, 1), At(t, 2), At(t, 3), At(t, 0)>>
      ELSE <<At(t, 1), At(t, 0), At(t, 3), At(t, 2)>>
    ELSE IF At(t, 2) < At(t, 0) /\ At(t, 2) < At(t, 1) /\ At(t, 2) < At(t, 3) THEN
      IF At(t, 3) < At(t, 1) THEN <<At(t, 2), At(t, 3), At(t, 0), At(t, 1)>>
      ELSE <<At(t, 2), At(t, 1), At(t, 0), At(t, 3)>>
    ELSE
      IF At(t, 0) < At(t, 2) THEN <<At(t, 3), At(t, 0), At(t, 1), At(t, 2)>>
      ELSE <<At(t, 3), At(t, 2), At(t, 1), At(t, 0)>>

get_element_global_face_verts(elem, local_face) ==
  global_face_verts(get_element_face_verts(elem, local_face))

global_face_equality(a, b) ==
  IF Len(a) = Len(b) THEN
    IF Len(a) = 3 THEN
      At(a, 0) = At(b, 0) /\ At(a, 1) = At(b, 1) /\ At(a, 2) = At(b, 2)
    ELSE
      /\ At(a, 0) = At(b, 0) /\ At(a, 1) = At(b, 1)
      /\ At(a, 2) = At(b, 2) /\ At(a, 3) = At(b, 3)
  ELSE FALSE

\* The elements that reference vert, as stored by init_vert_element_data;
\* no elements for a vertex id that is out of range.
get_adjacent_elements_from_vert(vert) ==
  IF vert < nverts THEN
    [k \in 1..(At(vert_element_ptr, vert + 1) - At(vert_element_ptr, vert)) |->
       At(vert_elements, At(vert_element_ptr, vert) + k - 1)]
  ELSE <<>>

\* The four element -> face (or element -> edge) arrays, as one value.
FaceArrays ==
  [tet |-> tet_faces, hex |-> hex_faces,
   wedge |-> wedge_faces, pyrmd |-> pyrmd_faces]

\* Offset of an element's first face in the array of its shape.
FaceOffset(elem) ==
  CASE ElemKind(elem) = "tet" -> TET_FACES * ElemLocal(elem)
    [] ElemKind(elem) = "hex" -> HEX_FACES * ElemLocal(elem)
    [] ElemKind(elem) = "wedge" -> WEDGE_FACES * ElemLocal(elem)
    [] ElemKind(elem) = "pyrmd" -> PYRMD_FACES * ElemLocal(elem)
    [] OTHER -> 0

\* faces[f] of the element's slice of the face arrays F, and its update.
GetFace(F, elem, f) == At(F[ElemKind(elem)], FaceOffset(elem) + f)

SetFace(F, elem, f, v) ==
  [F EXCEPT ![ElemKind(elem)] = Put(@, FaceOffset(elem) + f, v)]

\* get_element_faces: the face ids of an element.
get_element_faces(elem) ==
  [f \in 1..NumElemFaces(elem) |-> GetFace(FaceArrays, elem, f - 1)]

\* The smallest index of the set S; none if S is empty.
First(S, none) == IF S = {} THEN none ELSE CHOOSE i \in S : \A j \in S : i <= j

\* The search of init_face_data for an unlabeled face of another element
\* with the same vertex tuple: loops m (face vertex), k (adjacent element),
\* adj_face, in this order; each loop stops at its first match.
\* The adj_face loop: the first matching face, adj_nf when there is none.
FindInElem(F, face_verts, adj_elem) ==
  First({adj_face \in 0..(NumElemFaces(adj_elem) - 1) :
           /\ GetFace(F, adj_elem, adj_face) = NO_LABEL
           /\ global_face_equality(
                face_verts, get_element_global_face_verts(adj_elem, adj_face))},
        NumElemFaces(adj_elem))

\* The k loop: the first adjacent element, not elem, with a matching face;
\* nadj_elems when there is none.
FindInAdj(F, elem, face_verts, adj_elems) ==
  First({k \in 0..(Len(adj_elems) - 1) :
           /\ At(adj_elems, k) # elem
           /\ FindInElem(F, face_verts, At(adj_elems, k))
                < NumElemFaces(At(adj_elems, k))},
        Len(adj_elems))

\* The m loop: the first face vertex with such an adjacent element;
\* nface_verts when there is none.
FindVert(F, elem, face_verts) ==
  First({m \in 0..(Len(face_verts) - 1) :
           FindInAdj(F, elem, face_verts,
                     get_adjacent_elements_from_vert(At(face_verts, m)))
             < Len(get_adjacent_elements_from_vert(At(face_verts, m)))},
        Len(face_verts))

\* The element and face the search stops at: <<adj_elems[k], adj_face>>.
FoundFace(F, face_verts, adj_elem) ==
  <<adj_elem, FindInElem(F, face_verts, adj_elem)>>

FoundIn(F, elem, face_verts, adj_elems) ==
  FoundFace(F, face_verts,
            At(adj_elems, FindInAdj(F, elem, face_verts, adj_elems)))

\* The result of the search; <<>> when face_located stays false.
FoundAt(F, elem, face_verts, m) ==
  IF m >= Len(face_verts) THEN <<>>
  ELSE FoundIn(F, elem, face_verts,
               get_adjacent_elements_from_vert(At(face_verts, m)))

FindAdjFace(F, elem, face_verts) ==
  FoundAt(F, elem, face_verts, FindVert(F, elem, face_verts))

\* Mutant of NumberFace: the matching face of the adjacent element is not
\* labeled.
NumberFace_OwnOnly(st, elem, face, face_verts, hit) ==
  IF Len(face_verts) = 3 THEN
    [F |-> SetFace(st.F, elem, face, st.ntri),
     ntri |-> st.ntri + 1, nquad |-> st.nquad]
  ELSE
    [F |-> SetFace(st.F, elem, face, st.nquad),
     ntri |-> st.ntri, nquad |-> st.nquad + 1]

\* One step of the first loop of init_face_data, for an unlabeled face with
\* vertex tuple face_verts and search result hit.  st = [F, ntri, nquad].
NumberFace(st, elem, face, face_verts, hit) ==
  IF Len(face_verts) = 3 THEN
    [F |-> IF hit = <<>> THEN SetFace(st.F, elem, face, st.ntri)
           ELSE SetFace(SetFace(st.F, hit[1], hit[2], st.ntri),
                        elem, face, st.ntri),
     ntri |-> st.ntri + 1,
     nquad |-> st.nquad]
  ELSE
    [F |-> IF hit = <<>> THEN SetFace(st.F, elem, face, st.nquad)
           ELSE SetFace(SetFace(st.F, hit[1], hit[2], st.nquad),
                        elem, face, st.nquad),
     ntri |-> st.ntri,
     nquad |-> st.nquad + 1]

NumberFaceAt(st, elem, face, face_verts) ==
  NumberFace(st, elem, face, face_verts,
             FindAdjFace(st.F, elem, face_verts))

\* First loop of init_face_data: the faces of one element, and the elements.
NumberElemFaces(st, elem) ==
  For(LAMBDA s, face :
        IF GetFace(s.F, elem, face) # NO_LABEL THEN s
        ELSE NumberFaceAt(s, elem, face,
                          get_element_global_face_verts(elem, face)),
      st, 0, NumElemFaces(elem))

NumberFaces(st) ==
  For(LAMBDA s, elem : NumberElemFaces(s, elem), st, 0, nelems)

\* Mutant of ClaimSlot: elem always goes to the first slot.
ClaimSlot_FirstOnly(a, id, elem) == Put(a, 2 * id, elem)

\* One face -> element array: the first free of the two slots gets elem.
ClaimSlot(a, id, elem) ==
  IF At(a, 2 * id) = NO_LABEL THEN Put(a, 2 * id, elem)
  ELSE IF At(a, 2 * id + 1) = NO_LABEL THEN Put(a, 2 * id + 1, elem)
  ELSE a

\* Mutant of FaceElement: the number of a quadrilateral face is not moved
\* behind the triangular ones.
FaceElement_NoOffset(st, nt, elem, face, id) ==
  IF Len(FaceTable(elem, face)) = 3 THEN
    [F |-> st.F, tri |-> ClaimSlot(st.tri, id, elem), quad |-> st.quad]
  ELSE
    [F |-> st.F, tri |-> st.tri, quad |-> ClaimSlot(st.quad, id, elem)]

\* One step of the second loop of init_face_data: id is faces[face].
\* st = [F, tri, quad]; nt is ntri_faces.
FaceElement(st, nt, elem, face, id) ==
  IF Len(FaceTable(elem, face)) = 3 THEN
    [F |-> st.F, tri |-> ClaimSlot(st.tri, id, elem), quad |-> st.quad]
  ELSE
    [F |-> SetFace(st.F, elem, face, id + nt),
     tri |-> st.tri,
     quad |-> ClaimSlot(st.quad, id, elem)]

\* Second loop of init_face_data: the faces of one element, and the elements.
ElemFaceElements(st, nt, elem) ==
  For(LAMBDA s, face :
        FaceElement(s, nt, elem, face, GetFace(s.F, elem, face)),
      st, 0, NumElemFaces(elem))

FaceElements(st, nt) ==
  For(LAMBDA s, elem : ElemFaceElements(s, nt, elem), st, 0, nelems)

FaceData(p1, p2) ==
  [F |-> p2.F, tri |-> p2.tri, quad |-> p2.quad,
   ntri |-> p1.ntri, nquad |-> p1.nquad, nfaces |-> p1.ntri + p1.nquad]

FaceDataFrom(p1) ==
  FaceData(p1, FaceElements([F |-> p1.F,
                             tri |-> Fill(2 * p1.ntri, NO_LABEL),
                             quad |-> Fill(2 * p1.nquad, NO_LABEL)],
                            p1.ntri))

init_face_data ==
  FaceDataFrom(
    NumberFaces([F |-> [tet |-> Fill(TET_FACES * ntets, NO_LABEL),
                        hex |-> Fill(HEX_FACES * nhex, NO_LABEL),
                        wedge |-> Fill(WEDGE_FACES * nwedge, NO_LABEL),
                        pyrmd |-> Fill(PYRMD_FACES * npyrmd, NO_LABEL)],
                 ntri |-> 0, nquad |-> 0]))

InitFaceData ==
  /\ pc = "vert_element"
  /\ \E r \in {init_face_data} :
       /\ tet_faces' = r.F.tet
       /\ hex_faces' = r.F.hex
       /\ wedge_faces' = r.F.wedge
       /\ pyrmd_faces' = r.F.pyrmd
       /\ tri_face_elements' = r.tri
       /\ quad_face_elements' = r.quad
       /\ ntri_faces' = r.ntri
       /\ nquad_faces' = r.nquad
       /\ nfaces' = r.nfaces
  /\ pc' = "face"
  /\ UNCHANGED <<inputVars, vertElemVars, edgeVars, clientVars>>

\* Mutant of get_face_elements: the flag tests the first slot.
get_face_elements_FlagFirst(face) ==
  IF face < ntri_faces THEN
    <<At(tri_face_elements, 2 * face), At(tri_face_elements, 2 * face + 1),
      At(tri_face_elements, 2 * face) = NO_LABEL>>
  ELSE
    <<At(quad_face_elements, 2 * (face - ntri_faces)),
      At(quad_face_elements, 2 * (face - ntri_faces) + 1),
      At(quad_face_elements, 2 * (face - ntri_faces)) = NO_LABEL>>

\* get_face_elements: <<e1, e2, boundary flag>>.
get_face_elements(face) ==
  IF face < ntri_faces THEN
    <<At(tri_face_elements, 2 * face), At(tri_face_elements, 2 * face + 1),
      At(tri_face_elements, 2 * face + 1) = NO_LABEL>>
  ELSE
    <<At(quad_face_elements, 2 * (face - ntri_faces)),
      At(quad_face_elements, 2 * (face - ntri_faces) + 1),
      At(quad_face_elements, 2 * (face - ntri_faces) + 1) = NO_LABEL>>

\* ------------------------------------------------------------------------
\* Edges
\* ------------------------------------------------------------------------

\* Mutant of global_edge_equality: the reversed order is not compared.
global_edge_equality_Directed(a, b) ==
  At(a, 0) = At(b, 0) /\ At(a, 1) = At(b, 1)

global_edge_equality(a, b) ==
  \/ (At(a, 0) = At(b, 0) /\ At(a, 1) = At(b, 1))
  \/ (At(a, 0) = At(b, 1) /\ At(a, 1) = At(b, 0))

EdgeArrays ==
  [tet |-> tet_edges, hex |-> hex_edges,
   wedge |-> wedge_edges, pyrmd |-> pyrmd_edges]

EdgeOffset(elem) ==
  CASE ElemKind(elem) = "tet" -> TET_EDGES * ElemLocal(elem)
    [] ElemKind(elem) = "hex" -> HEX_EDGES * ElemLocal(elem)
    [] ElemKind(elem) = "wedge" -> WEDGE_EDGES * ElemLocal(elem)
    [] ElemKind(elem) = "pyrmd" -> PYRMD_EDGES * ElemLocal(elem)
    [] OTHER -> 0

GetEdge(E, elem, e) == At(E[ElemKind(elem)], EdgeOffset(elem) + e)

SetEdge(E, elem, e, v) ==
  [E EXCEPT ![ElemKind(elem)] = Put(@, EdgeOffset(elem) + e, v)]

get_element_edges(elem) ==
  [e \in 1..NumElemEdges(elem) |-> GetEdge(EdgeArrays, elem, e - 1)]

\* The inner loops of init_edge_data: every edge of every other element
\* adjacent to v0[0] that equals v0 gets edge_num.
SpreadInElem(E, adj_elem, v0, edge_num) ==
  For(LAMBDA A, e1 :
        IF global_edge_equality(v0, get_element_edge_verts(adj_elem, e1))
        THEN SetEdge(A, adj_elem, e1, edge_num)
        ELSE A,
      E, 0, NumElemEdges(adj_elem))

SpreadEdge(E, elem, v0, edge_num, adj_elems) ==
  For(LAMBDA A, i :
        IF At(adj_elems, i) = elem THEN A
        ELSE SpreadInElem(A, At(adj_elems, i), v0, edge_num),
      E, 0, Len(adj_elems))

\* One step of the outer loops of init_edge_data, for an unlabeled edge
\* with endpoints v0.  st = [E, nedges].
NumberEdge(st, elem, e0, v0) ==
  [E |-> SpreadEdge(SetEdge(st.E, elem, e0, st.nedges), elem, v0, st.nedges,
                    get_adjacent_elements_from_vert(At(v0, 0))),
   nedges |-> st.nedges + 1]

\* The outer loops of init_edge_data: the edges of one element, the elements.
NumberElemEdges(st, elem) ==
  For(LAMBDA s, e0 :
        IF GetEdge(s.E, elem, e0) # NO_LABEL THEN s
        ELSE NumberEdge(s, elem, e0, get_element_edge_verts(elem, e0)),
      st, 0, NumElemEdges(elem))

NumberEdges(st) ==
  For(LAMBDA s, elem : NumberElemEdges(s, elem), st, 0, nelems)

init_edge_data ==
  NumberEdges([E |-> [tet |-> Fill(TET_EDGES * ntets, NO_LABEL),
                      hex |-> Fill(HEX_EDGES * nhex, NO_LABEL),
                      wedge |-> Fill(WEDGE_EDGES * nwedge, NO_LABEL),
                      pyrmd |-> Fill(PYRMD_EDGES * npyrmd, NO_LABEL)],
               nedges |-> 0])

InitEdgeData ==
  /\ pc = "face"
  /\ \E r \in {init_edge_data} :
       /\ tet_edges' = r.E.tet
       /\ hex_edges' = r.E.hex
       /\ wedge_edges' = r.E.wedge
       /\ pyrmd_edges' = r.E.pyrmd
       /\ nedges' = r.nedges
  /\ pc' = "conn"
  /\ UNCHANGED <<inputVars, vertElemVars, faceVars, clientVars>>

\* ------------------------------------------------------------------------
\* get_element_global_face_verts on its own
\* ------------------------------------------------------------------------

\* Local vertex lists of a triangular or quadrilateral face: 3 or 4
\* pairwise distinct vertex ids.
FaceLists ==
  {t \in [1..3 -> 0..(NFaceIds - 1)] \cup [1..4 -> 0..(NFaceIds - 1)] :
     \A i, j \in 1..Len(t) : i # j => t[i] # t[j]}

\* The connectivity of a mesh without elements.
EmptyMesh == [tets |-> <<>>, hex |-> <<>>, wedge |-> <<>>, pyrmd |-> <<>>]

\* Two faces whose canonical forms are about to be computed; t_a and t_b
\* are what get_element_face_verts returned for them.
InitFaceVerts ==
  /\ pc = "face_verts"
  /\ InitMesh(EmptyMesh)
  /\ \E a, b \in FaceLists :
       call = [op |-> "get_element_global_face_verts", t_a |-> a, t_b |-> b]
  /\ vert_labels = <<>>
  /\ edge_labels = <<>>
  /\ face_labels = <<>>
  /\ InitDof
  /\ mat = [built |-> FALSE]
  /\ added = <<>>
  /\ lorder = [built |-> FALSE]

\* The canonical forms of both faces, and their comparison as init_face_data
\* makes it.
GetElementGlobalFaceVerts ==
  /\ pc = "face_verts"
  /\ call' = [op |-> "global_face_equality",
              t_a |-> call.t_a, t_b |-> call.t_b,
              verts_a |-> global_face_verts(call.t_a),
              verts_b |-> global_face_verts(call.t_b),
              equal |-> global_face_equality(global_face_verts(call.t_a),
                                             global_face_verts(call.t_b))]
  /\ pc' = "face_verts_done"
  /\ UNCHANGED <<connVars, objVars, labelVars, dofVars>>

NextFaceVerts == GetElementGlobalFaceVerts

SpecFaceVerts == InitFaceVerts /\ [][NextFaceVerts]_vars

\* ------------------------------------------------------------------------
\* get_labels_from_verts
\* ------------------------------------------------------------------------

\* Vertex lists handed to get_labels_from_verts; NVerts and NVerts + 1 are
\* not vertices of the mesh.
LabelVertChoices ==
  { <<>>, <<0>>, <<1, 2, 3>>, <<3, 2, 1, 1>>, <<0, 1, 2, 3>>,
    <<4, 1, 2, 3, 0>>, <<1, 2, 3, NVerts>>, <<NVerts + 1, NVerts>>,
    <<0, 1, 2, 3, 4, 5, 6, 7>>, <<5, 3, NVerts, 2, 4>> }

\* Content of a freshly allocated, not initialized label array.
LabelJunk == {0, 1, NO_LABEL}

\* Mutant of ClearLabels: the array keeps its content.
ClearLabels_Missing(a, n) == a

\* std::fill(a, a + n, NO_LABEL)
ClearLabels(a, n) ==
  Array([i \in 1..Len(a) |-> IF i <= n THEN NO_LABEL ELSE a[i]])

\* for (i = 0; i < nv; i++) if (verts[i] < nverts) vert_labels[verts[i]] = i
LabelVerts(vl, nv, verts) ==
  For(LAMBDA l, i :
        IF At(verts, i) < nverts THEN Put(l, At(verts, i), i) ELSE l,
      vl, 0, nv)

Labeled(vl, v) == At(vl, v) # NO_LABEL

\* The loop over the edges of elem.
LabelElemEdges(el, vl, elem) ==
  For(LAMBDA l, e :
        IF /\ Labeled(vl, At(get_element_edge_verts(elem, e), 0))
           /\ Labeled(vl, At(get_element_edge_verts(elem, e), 1))
        THEN Put(l, GetEdge(EdgeArrays, elem, e), GetEdge(EdgeArrays, elem, e))
        ELSE l,
      el, 0, NumElemEdges(elem))

\* All face vertices are labeled (nfv is 3 or 4).
AllLabeled(vl, fv) ==
  IF Len(fv) = 3 THEN
    Labeled(vl, At(fv, 0)) /\ Labeled(vl, At(fv, 1)) /\ Labeled(vl, At(fv, 2))
  ELSE IF Len(fv) = 4 THEN
    /\ Labeled(vl, At(fv, 0)) /\ Labeled(vl, At(fv, 1))
    /\ Labeled(vl, At(fv, 2)) /\ Labeled(vl, At(fv, 3))
  ELSE FALSE

\* The loop over the faces of elem.
LabelElemFaces(fl, vl, elem) ==
  For(LAMBDA l, f :
        IF AllLabeled(vl, get_element_face_verts(elem, f))
        THEN Put(l, GetFace(FaceArrays, elem, f), GetFace(FaceArrays, elem, f))
        ELSE l,
      fl, 0, NumElemFaces(elem))

\* The loop over the elements.
LabelElems(st) ==
  For(LAMBDA s, elem :
        [vert |-> s.vert,
         edge |-> LabelElemEdges(s.edge, s.vert, elem),
         face |-> LabelElemFaces(s.face, s.vert, elem)],
      st, 0, nelems)

\* get_labels_from_verts(nv, verts, vl, el, fl): the three arrays on return.
get_labels_from_verts(nv, verts, vl, el, fl) ==
  LabelElems([vert |-> LabelVerts(ClearLabels(vl, nverts), nv, verts),
              edge |-> ClearLabels(el, nedges),
              face |-> ClearLabels(fl, nfaces)])

\* A client allocates the three label arrays (new index_t[n]).
AllocLabels ==
  /\ pc = "conn"
  /\ \E junk \in LabelJunk :
       /\ vert_labels' = Fill(nverts, junk)
       /\ edge_labels' = Fill(nedges, junk)
       /\ face_labels' = Fill(nfaces, junk)
  /\ pc' = "labels_alloc"
  /\ UNCHANGED <<connVars, objVars, call, dofVars>>

\* A call of get_labels_from_verts on the client's arrays, fresh or left by
\* an earlier call.
GetLabelsFromVerts ==
  /\ pc \in {"labels_alloc", "labels"}
  /\ \E verts \in LabelVertChoices :
       /\ call' = [op |-> "get_labels_from_verts",
                   nv |-> Len(verts), verts |-> verts]
       /\ \E r \in {get_labels_from_verts(Len(verts), verts, vert_labels,
                                          edge_labels, face_labels)} :
            /\ vert_labels' = r.vert
            /\ edge_labels' = r.edge
            /\ face_labels' = r.face
  /\ pc' = "labels"
  /\ UNCHANGED <<connVars, objVars, dofVars>>

\* ------------------------------------------------------------------------
\* The basis collection (Basis::nbasis, get_entity_ndof, get/set_entity_dof,
\* set_entity_signs) and ElementTypes::get_quad_face_orientation
\* ------------------------------------------------------------------------

\* The kinds of mesh entity, in the order their DOF are laid out.
EntityKinds == <<"volume", "face", "edge", "vertex">>

\* Function spaces: the number of DOF each carries per entity of each kind.
H1Space == [volume |-> 0, face |-> 0, edge |-> 0, vertex |-> 1]

L2Space == [volume |-> 1, face |-> 0, edge |-> 0, vertex |-> 0]

HdivSpace == [volume |-> 0, face |-> 1, edge |-> 0, vertex |-> 0]

HcurlSpace == [volume |-> 0, face |-> 0, edge |-> 2, vertex |-> 0]

H1Space2 == [volume |-> 1, face |-> 1, edge |-> 1, vertex |-> 1]

\* The basis collections ElementMesh is instantiated with.
BasisChoices ==
  { <<H1Space>>, <<L2Space, H1Space>>, <<HdivSpace, L2Space>>,
    <<HcurlSpace, H1Space>>, <<H1Space2>> }

nbasis == Len(Basis)

\* Basis::get_entity_ndof(basis, entity, index)
get_entity_ndof(basis, kind) == At(Basis, basis)[kind]

\* The number of entities of a kind an element has.
NumEntities(elem, kind) ==
  CASE kind = "volume" -> 1
    [] kind = "face" -> NumElemFaces(elem)
    [] kind = "edge" -> NumElemEdges(elem)
    [] kind = "vertex" -> Len(get_element_verts(elem))

\* DOF of one basis on the entities of the first k kinds of an element.
RECURSIVE KindsSize(_, _)
KindsSize(basis, k) ==
  IF k = 0 THEN 0
  ELSE KindsSize(basis, k - 1)
       + NumEntities(0, EntityKinds[k]) * get_entity_ndof(basis, EntityKinds[k])

\* DOF of the bases before basis on an element.
RECURSIVE BasisOffset(_)
BasisOffset(basis) ==
  IF basis = 0 THEN 0
  ELSE BasisOffset(basis - 1) + KindsSize(basis - 1, Len(EntityKinds))

\* Basis::ndof
ndof_per_element == BasisOffset(nbasis)

KindIndex(kind) == CHOOSE k \in 1..Len(EntityKinds) : EntityKinds[k] = kind

\* The first element-local slot of the DOF of an entity.
EntitySlot(basis, kind, index) ==
  BasisOffset(basis) + KindsSize(basis, KindIndex(kind) - 1)
  + index * get_entity_ndof(basis, kind)

\* The entry of the entity's DOF list that goes to its k-th slot.
OrientedIndex(n, orient, k) == IF orient = 0 THEN k ELSE n - 1 - k

\* The first slot, in an array over all elements, of an entity of elem.
SlotBase(basis, kind, index, elem) ==
  elem * ndof_per_element + EntitySlot(basis, kind, index)

\* a with the n slots from base on taken from dof in the order of orient.
PutOriented(a, base, n, orient, entity_dof) ==
  Array([i \in 1..Len(a) |->
           IF i - 1 >= base /\ i - 1 < base + n
           THEN At(entity_dof, OrientedIndex(n, orient, i - 1 - base))
           ELSE a[i]])

\* Basis::set_entity_dof(basis, entity, index, orient, dof, elem_dof), on the
\* slice of element elem of the array edof.
set_entity_dof(basis, kind, index, orient, entity_dof, edof, elem) ==
  PutOriented(edof, SlotBase(basis, kind, index, elem),
              get_entity_ndof(basis, kind), orient, entity_dof)

\* a with the n slots from base on set to the sign of orient.
PutSigns(a, base, n, orient) ==
  Array([i \in 1..Len(a) |->
           IF i - 1 >= base /\ i - 1 < base + n
           THEN IF orient = 0 THEN 1 ELSE -1
           ELSE a[i]])

\* Basis::set_entity_signs(basis, entity, index, orient, elem_sign)
set_entity_signs(basis, kind, index, orient, esign, elem) ==
  PutSigns(esign, SlotBase(basis, kind, index, elem),
           get_entity_ndof(basis, kind), orient)

\* dof with its first n entries read from a, from base on.
TakeSlots(a, base, n, entity_dof) ==
  Array([i \in 1..Len(entity_dof) |->
           IF i <= n THEN At(a, base + i - 1) ELSE entity_dof[i]])

\* Basis::get_entity_dof(basis, entity, index, elem_dof, dof): the array dof
\* after the call.
get_entity_dof(basis, kind, index, edof, elem, entity_dof) ==
  TakeSlots(edof, SlotBase(basis, kind, index, elem),
            get_entity_ndof(basis, kind), entity_dof)

\* The entity's DOF as element elem stores them.
EntityDof(edof, basis, kind, elem, index) ==
  {At(edof, SlotBase(basis, kind, index, elem) + k) :
     k \in 0..(get_entity_ndof(basis, kind) - 1)}

\* ElementTypes::get_quad_face_orientation(ref, face): the number of the
\* rotation (0..3) or reflection (4..7) that takes ref to face.
NUM_QUAD_FACE_ORIENTATIONS == 8

QuadOriented(ref, o) ==
  [k \in 1..4 |-> IF o < 4 THEN At(ref, (o + k - 1) % 4)
                  ELSE At(ref, (o + 4 - (k - 1)) % 4)]

get_quad_face_orientation(ref, face) ==
  IF \E o \in 0..(NUM_QUAD_FACE_ORIENTATIONS - 1) : QuadOriented(ref, o) = face
  THEN CHOOSE o \in 0..(NUM_QUAD_FACE_ORIENTATIONS - 1) :
         /\ QuadOriented(ref, o) = face
         /\ \A q \in 0..(o - 1) : QuadOriented(ref, q) # face
  ELSE NUM_QUAD_FACE_ORIENTATIONS

\* ------------------------------------------------------------------------
\* ElementMesh(conn): the sweep over the elements
\* ------------------------------------------------------------------------

\* Mutant of SweepVisit: the element is entered one level too deep.
SweepVisit_Deeper(st, e) ==
  IF e < nelems /\ At(st.ids, e) = NO_INDEX THEN
    [st EXCEPT !.ids = Put(st.ids, e, st.level + 1),
               !.stack = Put(st.stack, st.next, e),
               !.next = st.next + 1]
  ELSE st

\* if (e < nelems && ids[e] == NO_INDEX) { ids[e] = level; stack[next++] = e; }
SweepVisit(st, e) ==
  IF e < nelems /\ At(st.ids, e) = NO_INDEX THEN
    [st EXCEPT !.ids = Put(st.ids, e, st.level),
               !.stack = Put(st.stack, st.next, e),
               !.next = st.next + 1]
  ELSE st

\* The loop over the faces of element elem: both elements of each face.
SweepFaces(st, elem) ==
  For(LAMBDA s, j :
        SweepVisit(
          SweepVisit(s, get_face_elements(GetFace(FaceArrays, elem, j))[1]),
          get_face_elements(GetFace(FaceArrays, elem, j))[2]),
      st, 0, NumElemFaces(elem))

\* for (i = start; i < end; i++)
SweepLevel(st) ==
  For(LAMBDA s, i : SweepFaces(s, At(s.stack, i)), st, st.start, st.end)

\* start = end; end = next; after the round that left the state r.
SweepAdvance(st, r) ==
  [start |-> st.end, end |-> r.next, next |-> r.next, level |-> r.level,
   ids |-> r.ids, stack |-> r.stack]

\* while (start < end): one level per round.
RECURSIVE SweepLoop(_)
SweepLoop(st) ==
  IF st.start < st.end THEN
    SweepLoop(SweepAdvance(st,
                SweepLevel([st EXCEPT !.next = st.end,
                                      !.level = st.level + 1])))
  ELSE st

\* ids(nelems, NO_INDEX), stack(nelems) (zero-filled), element 0 at level 0.
SweepStart ==
  [start |-> 0, end |-> 1, next |-> 1, level |-> 0,
   ids |-> Put(Fill(nelems, NO_INDEX), 0, 0),
   stack |-> Put(Fill(nelems, 0), 0, 0)]

\* Every element has the shape the basis collection is written for.
Homogeneous == nelems \in {ntets, nhex, nwedge, npyrmd}

\* ElementMesh<Basis>(conn), up to the end of the sweep.  The DOF arrays,
\* which the sweep does not touch, are allocated with the numbering.
ElementMeshSweep ==
  /\ pc = "conn"
  /\ Homogeneous
  /\ \E B \in BasisChoices : Basis' = B
  /\ \E r \in {SweepLoop(SweepStart)} :
       /\ ids' = r.ids
       /\ stack' = r.stack
  /\ pc' = "sweep"
  /\ UNCHANGED <<connVars, objVars, call, labelVars, face_owners, edge_owners,
                 vert_owners, element_dof, element_sign, num_dof,
                 loop_basis, loop_counter, dof_counter, dof, dof_log>>

\* ------------------------------------------------------------------------
\* ElementMesh(conn): the numbering of the degrees of freedom
\* ------------------------------------------------------------------------

\* for (i = 0; i < ndof; i++, dof_counter++) dof[i] = dof_counter
AllocDof(entity_dof, counter, ndof) ==
  Array([i \in 1..Len(entity_dof) |->
           IF i <= ndof THEN counter + i - 1 ELSE entity_dof[i]])

\* set_entity_dof and set_entity_signs for an entity of elem, from dof.
PlaceEntity(st, basis, kind, index, entity, elem, orient, owned) ==
  [st EXCEPT
     !.edof = set_entity_dof(basis, kind, index, orient, st.dof, st.edof, elem),
     !.esign = set_entity_signs(basis, kind, index, orient, st.esign, elem),
     !.log = Append(st.log,
               [basis |-> basis, kind |-> kind, elem |-> elem,
                index |-> index, entity |-> entity, orient |-> orient,
                owned |-> owned,
                dof |-> SubSeq(st.dof, 1, get_entity_ndof(basis, kind))])]

\* Mutant of TakeDof: dof_counter is not advanced.
TakeDof_NoAdvance(st, basis, kind) ==
  [st EXCEPT !.dof = AllocDof(st.dof, st.counter, get_entity_ndof(basis, kind))]

\* Fresh DOF for an entity of kind kind, counted by dof_counter.
TakeDof(st, basis, kind) ==
  [st EXCEPT !.dof = AllocDof(st.dof, st.counter, get_entity_ndof(basis, kind)),
             !.counter = st.counter + get_entity_ndof(basis, kind)]

\* The volume DOF of elem: always allocated.
VolumeDof(st, basis, elem) ==
  PlaceEntity(TakeDof(st, basis, "volume"), basis, "volume", 0, elem, elem,
              0, TRUE)

\* Mutant of FirstIndex: the owner's first entity is taken.
FirstIndex_First(ents, entity, i) == i

\* The first position i with ents[i] = entity, Len(ents) if there is none.
RECURSIVE FirstIndex(_, _, _)
FirstIndex(ents, entity, i) ==
  IF i >= Len(ents) THEN i
  ELSE IF At(ents, i) = entity THEN i
  ELSE FirstIndex(ents, entity, i + 1)

\* The owner's DOF of the face it has at position i (none: dof is left as
\* it is), and the orientation of a quadrilateral against the owner's.
BorrowFace(st, basis, elem, index, face, owner_elem, i) ==
  IF i >= NumElemFaces(owner_elem) THEN
    PlaceEntity(st, basis, "face", index, face, elem, 0, FALSE)
  ELSE
    PlaceEntity(
      [st EXCEPT !.dof = get_entity_dof(basis, "face", i, st.edof,
                                        owner_elem, st.dof)],
      basis, "face", index, face, elem,
      IF Len(get_element_face_verts(owner_elem, i)) = 4
        THEN get_quad_face_orientation(
               get_element_face_verts(owner_elem, i),
               get_element_face_verts(elem, index))
        ELSE 0,
      FALSE)

\* One face of elem: owned if nobody or elem itself owns it.
FaceDof(st, basis, elem, index, face) ==
  IF At(st.fo, face) = NO_INDEX \/ At(st.fo, face) = elem THEN
    PlaceEntity(TakeDof([st EXCEPT !.fo = Put(st.fo, face, elem)],
                        basis, "face"),
                basis, "face", index, face, elem, 0, TRUE)
  ELSE
    BorrowFace(st, basis, elem, index, face, At(st.fo, face),
               FirstIndex(get_element_faces(At(st.fo, face)), face, 0))

FaceDofs(st, basis, elem) ==
  For(LAMBDA s, index :
        FaceDof(s, basis, elem, index, GetFace(FaceArrays, elem, index)),
      st, 0, NumElemFaces(elem))

\* Mutant of EdgeOrient: orient = 1 if the owner lists the endpoints in the
\* same order.
EdgeOrient_Agree(ref, verts) ==
  IF At(ref, 0) = At(verts, 0) /\ At(ref, 1) = At(verts, 1) THEN 1 ELSE 0

\* orient = 1 if the owner lists the endpoints in the opposite order.
EdgeOrient(ref, verts) ==
  IF At(ref, 0) = At(verts, 1) /\ At(ref, 1) = At(verts, 0) THEN 1 ELSE 0

\* Mutant of BorrowEdge: the owner's DOF are not fetched, dof is placed as
\* the previous entity left it.
BorrowEdge_Stale(st, basis, elem, index, edge, owner_elem, i) ==
  PlaceEntity(st, basis, "edge", index, edge, elem,
              EdgeOrient(get_element_edge_verts(owner_elem, i),
                         get_element_edge_verts(elem, index)),
              FALSE)

\* The owner's DOF of the edge it has at position i, and the orientation of
\* the edge against the owner's.
BorrowEdge(st, basis, elem, index, edge, owner_elem, i) ==
  IF i >= NumElemEdges(owner_elem) THEN
    PlaceEntity(st, basis, "edge", index, edge, elem, 0, FALSE)
  ELSE
    PlaceEntity(
      [st EXCEPT !.dof = get_entity_dof(basis, "edge", i, st.edof,
                                        owner_elem, st.dof)],
      basis, "edge", index, edge, elem,
      EdgeOrient(get_element_edge_verts(owner_elem, i),
                 get_element_edge_verts(elem, index)),
      FALSE)

\* One edge of elem.
EdgeDof(st, basis, elem, index, edge) ==
  IF At(st.eo, edge) = NO_INDEX \/ At(st.eo, edge) = elem THEN
    PlaceEntity(TakeDof([st EXCEPT !.eo = Put(st.eo, edge, elem)],
                        basis, "edge"),
                basis, "edge", index, edge, elem, 0, TRUE)
  ELSE
    BorrowEdge(st, basis, elem, index, edge, At(st.eo, edge),
               FirstIndex(get_element_edges(At(st.eo, edge)), edge, 0))

EdgeDofs(st, basis, elem) ==
  For(LAMBDA s, index :
        EdgeDof(s, basis, elem, index, GetEdge(EdgeArrays, elem, index)),
      st, 0, NumElemEdges(elem))

\* Mutant of BorrowVert: the owner's DOF are not fetched, dof is placed as
\* the previous entity left it.
BorrowVert_Stale(st, basis, elem, index, vert, owner_elem, i) ==
  PlaceEntity(st, basis, "vertex", index, vert, elem, 0, FALSE)

\* The owner's DOF of the vertex it has at position i.
BorrowVert(st, basis, elem, index, vert, owner_elem, i) ==
  IF i >= Len(get_element_verts(owner_elem)) THEN
    PlaceEntity(st, basis, "vertex", index, vert, elem, 0, FALSE)
  ELSE
    PlaceEntity(
      [st EXCEPT !.dof = get_entity_dof(basis, "vertex", i, st.edof,
                                        owner_elem, st.dof)],
      basis, "vertex", index, vert, elem, 0, FALSE)

\* Mutant of VertDof: every element takes the vertex over and allocates.
VertDof_TakeOver(st, basis, elem, index, vert) ==
  PlaceEntity(TakeDof([st EXCEPT !.vo = Put(st.vo, vert, elem)],
                      basis, "vertex"),
              basis, "vertex", index, vert, elem, 0, TRUE)

\* One vertex of elem.
VertDof(st, basis, elem, index, vert) ==
  IF At(st.vo, vert) = NO_INDEX \/ At(st.vo, vert) = elem THEN
    PlaceEntity(TakeDof([st EXCEPT !.vo = Put(st.vo, vert, elem)],
                        basis, "vertex"),
                basis, "vertex", index, vert, elem, 0, TRUE)
  ELSE
    BorrowVert(st, basis, elem, index, vert, At(st.vo, vert),
               FirstIndex(get_element_verts(At(st.vo, vert)), vert, 0))

VertDofs(st, basis, elem) ==
  For(LAMBDA s, index :
        VertDof(s, basis, elem, index, At(get_element_verts(elem), index)),
      st, 0, Len(get_element_verts(elem)))

\* One element of the sweep of a basis: volume, faces, edges, vertices.
ElemDofs(st, basis, elem) ==
  VertDofs(EdgeDofs(FaceDofs(VolumeDof(st, basis, elem), basis, elem),
                    basis, elem),
           basis, elem)

\* Content of the freshly allocated element_sign array and of the local
\* array dof, neither of which is initialized.
IntJunk == {0, -1}

\* ElementMesh<Basis>(conn), between the sweep and the numbering loops: the
\* DOF arrays, the owner arrays, dof_counter = 0, basis = 0, counter = nelems.
ElementMeshOwners ==
  /\ pc = "sweep"
  /\ element_dof' = Fill(nelems * ndof_per_element, NO_INDEX)
  /\ \E junk \in IntJunk :
       /\ element_sign' = Fill(nelems * ndof_per_element, junk)
       /\ dof' = Fill(ndof_per_element, junk)
  /\ face_owners' = Fill(nfaces, NO_INDEX)
  /\ edge_owners' = Fill(nedges, NO_INDEX)
  /\ vert_owners' = Fill(nverts, NO_INDEX)
  /\ dof_counter' = 0
  /\ loop_basis' = 0
  /\ loop_counter' = nelems
  /\ pc' = "number"
  /\ UNCHANGED <<connVars, objVars, call, labelVars, Basis, ids, stack, num_dof,
                 dof_log>>

\* The arrays and counters as one pass of the counter loop finds them.
NumberState ==
  [edof |-> element_dof, esign |-> element_sign,
   fo |-> face_owners, eo |-> edge_owners, vo |-> vert_owners,
   counter |-> dof_counter, dof |-> dof, log |-> dof_log]

\* One pass of the loop over counter, for elem = stack[counter - 1]; after
\* the last pass the loop over basis goes on with the next basis.
ElementMeshNumberElem ==
  /\ pc = "number"
  /\ loop_basis < nbasis
  /\ loop_counter > 0
  /\ \E r \in {ElemDofs(NumberState, loop_basis,
                        At(stack, loop_counter - 1))} :
       /\ element_dof' = r.edof
       /\ element_sign' = r.esign
       /\ face_owners' = r.fo
       /\ edge_owners' = r.eo
       /\ vert_owners' = r.vo
       /\ dof_counter' = r.counter
       /\ dof' = r.dof
       /\ dof_log' = r.log
  /\ IF loop_counter = 1
       THEN loop_basis' = loop_basis + 1 /\ loop_counter' = nelems
       ELSE loop_basis' = loop_basis /\ loop_counter' = loop_counter - 1
  /\ UNCHANGED <<pc, connVars, objVars, call, labelVars, Basis, ids, stack, num_dof>>

\* num_dof = dof_counter, at the end of the constructor.
ElementMeshDone ==
  /\ pc = "number"
  /\ loop_basis >= nbasis
  /\ num_dof' = dof_counter
  /\ pc' = "mesh"
  /\ UNCHANGED <<connVars, objVars, call, labelVars, Basis, ids, stack, face_owners,
                 edge_owners, vert_owners, element_dof, element_sign,
                 loop_basis, loop_counter, dof_counter, dof, dof_log>>

Next ==
  \/ InitVertElementData
  \/ InitFaceData
  \/ InitEdgeData

\* MeshConnectivity3D's constructor, from the copied input arrays on.
Spec == Init /\ [][Next]_vars

NextLabels ==
  \/ Next
  \/ AllocLabels
  \/ GetLabelsFromVerts

\* The constructor, then a client labeling vertex subsets.
SpecLabels == Init /\ [][NextLabels]_vars

NextDof ==
  \/ Next
  \/ ElementMeshSweep
  \/ ElementMeshOwners
  \/ ElementMeshNumberElem
  \/ ElementMeshDone

\* The connectivity constructor, then the constructor of ElementMesh.
SpecDof == Init /\ [][NextDof]_vars

\* ------------------------------------------------------------------------
\* Vocabulary of the properties
\* ------------------------------------------------------------------------

\* Positions at which the data of each construction phase is in place.
VertElementBuilt ==
  pc \in {"vert_element", "face", "conn", "labels_alloc", "labels",
     "sweep", "number", "mesh"}

FacesBuilt ==
  pc \in {"face", "conn", "labels_alloc", "labels",
     "sweep", "number", "mesh"}

ConnBuilt ==
  pc \in {"conn", "labels_alloc", "labels",
     "sweep", "number", "mesh"}

Elems == 0..(nelems - 1)

\* Element-local faces <<elem, face>> and edges <<elem, edge>>.
LocalFaces ==
  {x \in Elems \X (0..(HEX_FACES - 1)) : x[2] < NumElemFaces(x[1])}

LocalEdges ==
  {x \in Elems \X (0..(HEX_EDGES - 1)) : x[2] < NumElemEdges(x[1])}

FaceVertsOf(x) == get_element_face_verts(x[1], x[2])

EdgeVertsOf(x) == get_element_edge_verts(x[1], x[2])

FaceIdOf(x) == GetFace(FaceArrays, x[1], x[2])

EdgeIdOf(x) == GetEdge(EdgeArrays, x[1], x[2])

\* b lists the vertices of a, from some start, in the same or in the
\* opposite direction around the face.
SameCycle(a, b) ==
  /\ Len(a) = Len(b)
  /\ \E r \in 0..(Len(a) - 1) : \E d \in {1, Len(a) - 1} :
       \A k \in 0..(Len(a) - 1) : At(b, k) = At(a, (r + d * k) % Len(a))

\* Two element-local faces are the same physical face.
SameFace(x, y) == SameCycle(FaceVertsOf(x), FaceVertsOf(y))

\* The element-local faces that are physical face x, and their elements.
FaceCopies(x) == {y \in LocalFaces : SameFace(x, y)}

FaceSharers(x) == {y[1] : y \in FaceCopies(x)}

\* Every physical face belongs to at most two elements.
Manifold == \A x \in LocalFaces : Cardinality(FaceCopies(x)) <= 2

\* The global face ids get_face_elements flags as boundary.
FlaggedFaces == {f \in 0..(nfaces - 1) : get_face_elements(f)[3]}

\* ------------------------------------------------------------------------
\* Properties of the connectivity
\* ------------------------------------------------------------------------

\* C1: on a manifold mesh every global face id below get_num_faces() is the
\* id of some element-local face; for a face shared by two elements
\* get_face_elements returns these two distinct elements and the flag false,
\* for a face of one element it returns that element, NO_LABEL and true.
C1_FaceElementsOnManifold ==
  (FacesBuilt /\ Manifold) =>
    /\ \A f \in 0..(nfaces - 1) : \E x \in LocalFaces : FaceIdOf(x) = f
    /\ \A x \in LocalFaces : \A r \in {get_face_elements(FaceIdOf(x))} :
         /\ FaceIdOf(x) < nfaces
         /\ Cardinality(FaceSharers(x)) = 2 =>
              /\ r[1] # r[2]
              /\ r[1] < nelems /\ r[2] < nelems
              /\ {r[1], r[2]} = FaceSharers(x)
              /\ r[3] = FALSE
         /\ Cardinality(FaceSharers(x)) = 1 =>
              /\ r[1] = x[1]
              /\ r[2] = NO_LABEL
              /\ r[3] = TRUE

\* C1 witness: a constructed manifold mesh with a shared triangle, a shared
\* quadrilateral and a boundary face.
C1_Witness ==
  /\ ConnBuilt /\ Manifold
  /\ \E x \in LocalFaces :
       Len(FaceVertsOf(x)) = 3 /\ ~get_face_elements(FaceIdOf(x))[3]
  /\ \E x \in LocalFaces :
       Len(FaceVertsOf(x)) = 4 /\ ~get_face_elements(FaceIdOf(x))[3]
  /\ \E x \in LocalFaces : get_face_elements(FaceIdOf(x))[3]

\* Element-local faces whose vertex set is not that of a face of another
\* element, and those that are not a face of another element.
ExposedByVertexSet ==
  {x \in LocalFaces :
     ~\E y \in LocalFaces :
        y[1] # x[1] /\ Range(FaceVertsOf(y)) = Range(FaceVertsOf(x))}

ExposedFaces ==
  {x \in LocalFaces : ~\E y \in LocalFaces : y[1] # x[1] /\ SameFace(x, y)}

\* C2 (as stated): the number of faces flagged as boundary is the number of
\* element-local faces whose vertex set is not a face of any other element.
C2_FlaggedCountAsStated ==
  FacesBuilt => Cardinality(FlaggedFaces) = Cardinality(ExposedByVertexSet)

\* C2 (amended): on a manifold mesh the number of faces flagged as boundary
\* is the number of element-local faces that are not a face (the same
\* vertices in the same cyclic order up to direction) of another element.
C2_FlaggedCountOnManifold ==
  (FacesBuilt /\ Manifold) =>
    Cardinality(FlaggedFaces) = Cardinality(ExposedFaces)

\* C2 witness: a manifold mesh with exposed and shared faces.
C2_Witness ==
  /\ FacesBuilt /\ Manifold
  /\ ExposedFaces # {}
  /\ ExposedFaces # LocalFaces

\* C3: two element-local edges carry the same global edge id exactly when
\* their endpoints are the same unordered pair.
C3_EdgeIdIffSameEndpoints ==
  ConnBuilt =>
    \A x \in LocalEdges : \A y \in LocalEdges :
      (EdgeIdOf(x) = EdgeIdOf(y)) <=>
        (Range(EdgeVertsOf(x)) = Range(EdgeVertsOf(y)))

\* C3 witness: an edge shared by three elements, listed in both directions.
C3_Witness ==
  /\ ConnBuilt
  /\ \E x \in LocalEdges : \E y \in LocalEdges : \E z \in LocalEdges :
       /\ x[1] # y[1] /\ y[1] # z[1] /\ x[1] # z[1]
       /\ EdgeIdOf(x) = EdgeIdOf(y) /\ EdgeIdOf(y) = EdgeIdOf(z)
       /\ EdgeVertsOf(x) = EdgeVertsOf(y)
       /\ At(EdgeVertsOf(x), 0) = At(EdgeVertsOf(z), 1)
       /\ At(EdgeVertsOf(x), 1) = At(EdgeVertsOf(z), 0)

\* The mesh is two tetrahedra with five vertices between them: they share
\* exactly one face.
TwoTets ==
  /\ ntets = 2 /\ nelems = 2
  /\ Cardinality(Range(tet_verts)) = 5

\* C8: for two tetrahedra sharing exactly one face there are 7 global
\* faces, exactly one of which is not flagged as boundary, and for it
\* get_face_elements returns both tets.
C8_TwoTetsFaces ==
  (FacesBuilt /\ TwoTets) =>
    /\ nfaces = 7
    /\ Cardinality(FlaggedFaces) = 6
    /\ \A f \in (0..(nfaces - 1)) \ FlaggedFaces :
         /\ {get_face_elements(f)[1], get_face_elements(f)[2]} = {0, 1}
         /\ get_face_elements(f)[3] = FALSE

\* C8 witness: the two-tet mesh, constructed.
C8_Witness == ConnBuilt /\ TwoTets /\ nfaces = 7

\* The elements whose vertex list contains v.
ElemsOfVert(v) == {e \in Elems : v \in Range(get_element_verts(e))}

\* The number of element-vertex slots of the mesh.
NumVertSlots ==
  TET_VERTS * ntets + HEX_VERTS * nhex + WEDGE_VERTS * nwedge
    + PYRMD_VERTS * npyrmd

\* C9: get_adjacent_elements_from_vert(v) lists exactly the elements that
\* contain v, each once, in ascending order; vert_element_ptr starts at 0,
\* does not decrease and ends at the number of element-vertex slots; a
\* vertex id that is out of range has no elements.
C9_VertElements ==
  VertElementBuilt =>
    /\ Len(vert_element_ptr) = nverts + 1
    /\ At(vert_element_ptr, 0) = 0
    /\ \A v \in 0..(nverts - 1) :
         At(vert_element_ptr, v) <= At(vert_element_ptr, v + 1)
    /\ At(vert_element_ptr, nverts) = NumVertSlots
    /\ Len(vert_elements) = NumVertSlots
    /\ \A v \in 0..(nverts - 1) :
         \A a \in {get_adjacent_elements_from_vert(v)} :
           /\ Range(a) = ElemsOfVert(v)
           /\ \A i \in 1..(Len(a) - 1) : a[i] < a[i + 1]
    /\ \A v \in nverts..(nverts + 2) :
         Len(get_adjacent_elements_from_vert(v)) = 0

\* C9 witness: two tets, each shared vertex lists both.
C9_Witness ==
  /\ VertElementBuilt /\ TwoTets
  /\ Cardinality({v \in 0..(nverts - 1) :
                    get_adjacent_elements_from_vert(v) = <<0, 1>>}) = 3

\* ------------------------------------------------------------------------
\* Properties of the canonical face form
\* ------------------------------------------------------------------------

\* C4: for two faces with 3 or 4 pairwise distinct vertex ids the tuples of
\* get_element_global_face_verts are identical (and global_face_equality
\* says so) exactly when the local vertex lists are equal up to rotation and
\* reflection; each tuple starts at the smallest vertex id of its face and
\* lists the face's own cycle.
C4_CanonicalFaceVerts ==
  pc = "face_verts_done" =>
    /\ (call.verts_a = call.verts_b) <=> SameCycle(call.t_a, call.t_b)
    /\ call.equal <=> SameCycle(call.t_a, call.t_b)
    /\ At(call.verts_a, 0) = MinVert(call.t_a)
    /\ At(call.verts_b, 0) = MinVert(call.t_b)
    /\ SameCycle(call.t_a, call.verts_a)
    /\ SameCycle(call.t_b, call.verts_b)

\* C4 witness: a quadrilateral listed from another start in the opposite
\* direction got the same tuple, which differs from both local lists.
C4_Witness ==
  /\ pc = "face_verts_done"
  /\ Len(call.t_a) = 4
  /\ call.t_b = <<call.t_a[2], call.t_a[1], call.t_a[4], call.t_a[3]>>
  /\ call.verts_a = call.verts_b
  /\ call.verts_a # call.t_a
  /\ call.verts_a # call.t_b
  /\ call.equal

\* ------------------------------------------------------------------------
\* Properties of get_labels_from_verts
\* ------------------------------------------------------------------------

\* C10: after get_labels_from_verts(nv, verts, ...) a vertex is labeled iff
\* it is below nverts and occurs in verts, an edge is labeled iff both of
\* its endpoints are labeled, a face is labeled iff all of its vertices are
\* labeled, and every other entry of the three arrays is NO_LABEL, whatever
\* the arrays held before the call.
C10_LabelsFromVerts ==
  pc = "labels" =>
    /\ Len(vert_labels) = nverts
    /\ \A v \in 0..(nverts - 1) :
         Labeled(vert_labels, v) <=> v \in Range(call.verts)
    /\ \A x \in LocalEdges :
         Labeled(edge_labels, EdgeIdOf(x)) <=>
           \A k \in 0..1 : Labeled(vert_labels, At(EdgeVertsOf(x), k))
    /\ \A x \in LocalFaces :
         Labeled(face_labels, FaceIdOf(x)) <=>
           \A k \in 0..(Len(FaceVertsOf(x)) - 1) :
             Labeled(vert_labels, At(FaceVertsOf(x), k))
    /\ \A e \in 0..(nedges - 1) :
         Labeled(edge_labels, e) => \E x \in LocalEdges : EdgeIdOf(x) = e
    /\ \A f \in 0..(nfaces - 1) :
         Labeled(face_labels, f) => \E x \in LocalFaces : FaceIdOf(x) = f

\* C10 witness: the list named a vertex id that is not in the mesh, a face
\* and an edge are labeled, and another edge and another face are not.
C10_Witness ==
  /\ pc = "labels"
  /\ \E i \in 1..Len(call.verts) : call.verts[i] >= nverts
  /\ \E x, y \in LocalFaces :
       Labeled(face_labels, FaceIdOf(x)) /\ ~Labeled(face_labels, FaceIdOf(y))
  /\ \E x, y \in LocalEdges :
       Labeled(edge_labels, EdgeIdOf(x)) /\ ~Labeled(edge_labels, EdgeIdOf(y))

\* ------------------------------------------------------------------------
\* Properties of the DOF numbering of ElementMesh(conn)
\* ------------------------------------------------------------------------

MeshBuilt == pc = "mesh"

\* The elements the connectivity names next to elem across one of its faces.
FaceNeighbours(elem) ==
  {y \in Elems : \E f \in Range(get_element_faces(elem)) :
     y \in {get_face_elements(f)[1], get_face_elements(f)[2]}}

RECURSIVE FaceReachable(_)
FaceReachable(S) ==
  IF UNION {FaceNeighbours(e) : e \in S} \subseteq S THEN S
  ELSE FaceReachable(S \cup UNION {FaceNeighbours(e) : e \in S})

\* The mesh is connected through face adjacency.
FaceConnected == FaceReachable({0}) = Elems

Bases == 0..(nbasis - 1)

SharedKinds == {"face", "edge", "vertex"}

\* The element-local entities <<elem, index>> of a kind, and their global id.
LocalEntities(kind) ==
  {x \in Elems \X (0..(HEX_EDGES - 1)) : x[2] < NumEntities(x[1], kind)}

EntityIdOf(kind, x) ==
  CASE kind = "volume" -> x[1]
    [] kind = "face" -> FaceIdOf(x)
    [] kind = "edge" -> EdgeIdOf(x)
    [] kind = "vertex" -> At(get_element_verts(x[1]), x[2])

\* Two element-local entities of a kind are the same physical entity.
SameEntity(kind, x, y) ==
  CASE kind = "volume" -> x[1] = y[1]
    [] kind = "face" -> SameFace(x, y)
    [] kind = "edge" -> Range(EdgeVertsOf(x)) = Range(EdgeVertsOf(y))
    [] kind = "vertex" -> EntityIdOf(kind, x) = EntityIdOf(kind, y)

\* The DOF element x[1] stores for its entity x in basis b.
StoredDof(b, kind, x) == EntityDof(element_dof, b, kind, x[1], x[2])

\* Every (basis, kind, entity id) with the DOF some element stores for it.
StoredBlocksOf(kind) ==
  {<<b, kind, EntityIdOf(kind, x), StoredDof(b, kind, x)>> :
     b \in Bases, x \in LocalEntities(kind)}

StoredBlocks == UNION {StoredBlocksOf(kind) : kind \in Range(EntityKinds)}

\* The (basis, kind, entity id) triples whose block in T has the DOF d.
HoldersIn(T, d) == {<<t[1], t[2], t[3]>> : t \in {u \in T : d \in u[4]}}

\* C5: on a mesh connected through face adjacency the values of the
\* per-element DOF arrays are exactly 0..num_dof-1 (no gap, nothing above,
\* no slot left at NO_INDEX), and every DOF belongs to the block of exactly
\* one (basis, mesh entity) pair: the blocks of two pairs are disjoint.
C5_DofExactCover ==
  (MeshBuilt /\ FaceConnected) =>
    /\ Range(element_dof) = 0..(num_dof - 1)
    /\ \A T \in {StoredBlocks} : \A d \in 0..(num_dof - 1) :
         Cardinality(HoldersIn(T, d)) = 1

\* Placements of dof_log that copied a non-empty block from the owner.
Borrowings ==
  {i \in 1..Len(dof_log) : ~dof_log[i].owned /\ dof_log[i].dof # <<>>}

\* C5 witness: two bases with DOF on a connected mesh of several elements,
\* one of which borrowed from another.
C5_Witness ==
  /\ MeshBuilt /\ FaceConnected
  /\ nelems >= 2
  /\ nbasis = 2
  /\ Borrowings # {}
  /\ Range(element_dof) = 0..(num_dof - 1)

\* The placements of dof_log that allocated the DOF of an entity in basis b.
Allocations(b, kind, entity) ==
  {i \in 1..Len(dof_log) :
     /\ dof_log[i].basis = b /\ dof_log[i].kind = kind
     /\ dof_log[i].entity = entity /\ dof_log[i].owned}

\* For every basis, two elements that share a physical face, edge or vertex
\* store the same set of global DOF for it, the set allocated once for that
\* entity.
SharedEntitiesSameDof ==
  \A b \in Bases : \A kind \in SharedKinds :
    \A x \in LocalEntities(kind) :
      /\ \A y \in LocalEntities(kind) :
           SameEntity(kind, x, y) =>
             StoredDof(b, kind, x) = StoredDof(b, kind, y)
      /\ NO_INDEX \notin StoredDof(b, kind, x)
      /\ \E i \in Allocations(b, kind, EntityIdOf(kind, x)) :
           Range(dof_log[i].dof) = StoredDof(b, kind, x)

\* C6 (as stated): on a mesh connected through face adjacency, for every
\* basis, two elements that share a physical face, edge or vertex store the
\* same set of global DOF for it, the set allocated by the owner.
C6_SharedEntitySameDof ==
  (MeshBuilt /\ FaceConnected) => SharedEntitiesSameDof

\* C6 (amended): the same, on a mesh that is connected through face
\* adjacency and manifold (every physical face belongs to at most two
\* elements).
C6_SharedEntitySameDofOnManifold ==
  (MeshBuilt /\ FaceConnected /\ Manifold) => SharedEntitiesSameDof

\* C6 witness: on a manifold mesh an element borrowed the two DOF of an edge that its owner
\* lists in the opposite direction, and stores them in the other order.
C6_Witness ==
  /\ MeshBuilt /\ FaceConnected /\ Manifold
  /\ \E i \in Borrowings :
       /\ dof_log[i].kind = "edge"
       /\ dof_log[i].orient = 1
       /\ Len(dof_log[i].dof) = 2
       /\ At(element_dof, SlotBase(dof_log[i].basis, "edge",
                                   dof_log[i].index, dof_log[i].elem))
            = dof_log[i].dof[2]

\* The owner array of a kind of shared entity.
OwnersOf(kind) ==
  CASE kind = "face" -> face_owners
    [] kind = "edge" -> edge_owners
    [] kind = "vertex" -> vert_owners

\* The elements an entity is incident to.
IncidentElems(kind, entity) ==
  {x[1] : x \in {y \in LocalEntities(kind) : EntityIdOf(kind, y) = entity}}

\* The position of elem in the discovery order.
StackPos(elem) == CHOOSE i \in 0..(nelems - 1) : At(stack, i) = elem

\* C7: on a connected mesh every face, edge and vertex of the mesh has one
\* owner element, which is incident to it and is, among the incident
\* elements, the first in reverse discovery order (the last discovered);
\* in the sweep of every basis it is this element, and no other, that
\* allocates the entity's DOF.
C7_UniqueOwner ==
  (MeshBuilt /\ FaceConnected) =>
    \A kind \in SharedKinds : \A x \in LocalEntities(kind) :
      \A owner \in {At(OwnersOf(kind), EntityIdOf(kind, x))} :
        /\ owner \in IncidentElems(kind, EntityIdOf(kind, x))
        /\ \A e \in IncidentElems(kind, EntityIdOf(kind, x)) :
             StackPos(e) <= StackPos(owner)
        /\ \A b \in Bases :
             /\ Cardinality(Allocations(b, kind, EntityIdOf(kind, x))) = 1
             /\ \A i \in Allocations(b, kind, EntityIdOf(kind, x)) :
                  dof_log[i].elem = owner

\* C7 witness: three elements around one edge and two bases; the edge is
\* owned by the element discovered last, which is not element 0.
C7_Witness ==
  /\ MeshBuilt /\ FaceConnected
  /\ nelems = 3
  /\ nbasis = 2
  /\ \E x \in LocalEntities("edge") :
       /\ Cardinality(IncidentElems("edge", EdgeIdOf(x))) = 3
       /\ At(edge_owners, EdgeIdOf(x)) = At(stack, nelems - 1)
       /\ At(edge_owners, EdgeIdOf(x)) # 0

\* ------------------------------------------------------------------------
\* BoundaryCondition(conn, mesh, basis_select, nv, verts)
\* ------------------------------------------------------------------------

\* Largest number of elements of the meshes the clients of ElementMesh
\* (BoundaryCondition, create_block_matrix, the degradation constructor)
\* are run on.
MaxClientElems == 2

ClientMeshes ==
  { m \in Meshes :
      Len(m.tets) + Len(m.hex) + Len(m.wedge) + Len(m.pyrmd) <= MaxClientElems }

InitClientMesh ==
  /\ pc = "new"
  /\ \E m \in ClientMeshes : InitMesh(m)
  /\ InitClients

\* The selection masks basis_select[0 .. nbasis-1].
BasisSelects == [1..nbasis -> {0, 1}]

\* The inner loops over basis and k: the DOF of entity (kind, index) of elem
\* are appended to boundary_dof for every selected basis.
\* st = [vert, edge, face, out, log]; id is the label slot that was tested.
BcCollect(st, sel, kind, index, elem, id) ==
  For(LAMBDA s, basis :
        IF At(sel, basis) # 0 THEN
          [s EXCEPT
             !.out = s.out \o
                SubSeq(get_entity_dof(basis, kind, index, element_dof, elem,
                                      Fill(ndof_per_element, 0)),
                       1, get_entity_ndof(basis, kind)),
             !.log = Append(s.log, [kind |-> kind, elem |-> elem,
                                    index |-> index, id |-> id,
                                    basis |-> basis])]
        ELSE s,
      st, 0, nbasis)

\* Scan over the faces of elem.
BcFaces(st, sel, elem) ==
  For(LAMBDA s, f :
        IF At(s.face, GetFace(FaceArrays, elem, f)) # NO_LABEL THEN
          [BcCollect(s, sel, "face", f, elem, GetFace(FaceArrays, elem, f))
             EXCEPT !.face = Put(@, GetFace(FaceArrays, elem, f), NO_LABEL)]
        ELSE s,
      st, 0, NumElemFaces(elem))

\* Scan over the edges of elem: ne and elem_edges are what
\* conn.get_element_faces(elem, &elem_edges) returns, so edge_labels is
\* indexed with face ids.  st.edge is the array of nedges labels followed by
\* the memory behind it; a write at an index from nedges on is outside the
\* array and is recorded in st.stray.
BcEdges(st, sel, elem) ==
  For(LAMBDA s, e :
        IF At(s.edge, GetFace(FaceArrays, elem, e)) # NO_LABEL THEN
          [BcCollect(s, sel, "edge", e, elem, GetFace(FaceArrays, elem, e))
             EXCEPT !.edge = Put(@, GetFace(FaceArrays, elem, e), NO_LABEL),
                    !.stray = IF GetFace(FaceArrays, elem, e) >= nedges
                              THEN @ \cup {GetFace(FaceArrays, elem, e)}
                              ELSE @]
        ELSE s,
      st, 0, NumElemFaces(elem))

\* Scan over the vertices of elem.
BcVerts(st, sel, elem) ==
  For(LAMBDA s, v :
        IF At(s.vert, At(get_element_verts(elem), v)) # NO_LABEL THEN
          [BcCollect(s, sel, "vertex", v, elem, At(get_element_verts(elem), v))
             EXCEPT !.vert = Put(@, At(get_element_verts(elem), v), NO_LABEL)]
        ELSE s,
      st, 0, Len(get_element_verts(elem)))

\* The loop over the elements, from the labels get_labels_from_verts left.
\* behind is the content of the memory after the end of edge_labels, which
\* the edge scan reaches when the mesh has more faces than edges.
BoundaryScan(sel, labels, behind) ==
  For(LAMBDA s, elem :
        BcVerts(BcEdges(BcFaces(s, sel, elem), sel, elem), sel, elem),
      [vert |-> labels.vert,
       edge |-> labels.edge \o Fill(nfaces - nedges, behind),
       face |-> labels.face,
       out |-> <<>>, log |-> <<>>, stray |-> {}],
      0, nelems)

\* The constructor of BoundaryCondition: the label arrays are allocated
\* (not initialized), filled by get_labels_from_verts and consumed by the
\* scan; ndof and dof are the members of the object.  A read outside an
\* array yields whatever the memory holds.
BoundaryConditionCtor ==
  /\ pc = "mesh"
  /\ \E verts \in LabelVertChoices : \E sel \in BasisSelects :
       \E junk \in LabelJunk :
         \E behind \in (IF nfaces > nedges THEN LabelJunk ELSE {NO_LABEL}) :
           \E r \in {BoundaryScan(sel,
                       get_labels_from_verts(Len(verts), verts,
                                             Fill(nverts, junk),
                                             Fill(nedges, junk),
                                             Fill(nfaces, junk)),
                       behind)} :
             /\ call' = [op |-> "BoundaryCondition", nv |-> Len(verts),
                         verts |-> verts, basis_select |-> sel,
                         num_dof |-> num_dof,
                         ndof |-> Len(r.out), dof |-> r.out, log |-> r.log,
                         stray |-> r.stray]
             /\ vert_labels' = r.vert
             /\ edge_labels' = Slice(r.edge, 0, nedges)
             /\ face_labels' = r.face
  /\ pc' = "bc"
  /\ UNCHANGED <<connVars, objVars, dofVars>>

NextBC ==
  \/ NextDof
  \/ BoundaryConditionCtor

\* The constructors of the connectivity and of ElementMesh, then a
\* BoundaryCondition on a vertex subset.
SpecBC == InitClientMesh /\ [][NextBC]_vars

\* ------------------------------------------------------------------------
\* Properties of BoundaryCondition
\* ------------------------------------------------------------------------

BcDone == pc = "bc"

\* The labels get_labels_from_verts gave the constructor.
BcLabels ==
  get_labels_from_verts(call.nv, call.verts, Fill(nverts, NO_LABEL),
                        Fill(nedges, NO_LABEL), Fill(nfaces, NO_LABEL))

BcKinds == {"face", "edge", "vertex"}

\* The element-local entities of a kind whose physical entity is marked in
\* the labels.
BcMarked(labels, kind) ==
  { x \in LocalEntities(kind) :
      At(CASE kind = "face" -> labels.face
           [] kind = "edge" -> labels.edge
           [] kind = "vertex" -> labels.vert,
         EntityIdOf(kind, x)) # NO_LABEL }

BcSelected == { b \in Bases : At(call.basis_select, b) # 0 }

\* C11: the output of the BoundaryCondition constructor contains, for every
\* selected basis, the DOF of every face, edge and vertex that
\* get_labels_from_verts marked, and no DOF of an unmarked entity.
C11_CollectsExactlyMarkedDof ==
  (BcDone /\ FaceConnected /\ Manifold) =>
    \A labels \in {BcLabels} :
      \A k \in BcKinds :
        Range(call.dof) \cap (UNION {StoredDof(b, k, x) :
                                b \in BcSelected, x \in LocalEntities(k)})
          = UNION {StoredDof(b, k, x) :
                     b \in BcSelected, x \in BcMarked(labels, k)}

\* No entry of the sequence occurs twice.
NoDuplicates(a) == \A i, j \in 1..Len(a) : a[i] = a[j] => i = j


\* C12: the DOF list of the BoundaryCondition constructor is deduplicated:
\* no physical face, edge or vertex is collected from two incident elements
\* and no global DOF index appears twice in the output.
C12_OutputDeduplicated ==
  (BcDone /\ FaceConnected /\ Manifold) =>
    /\ \A i, j \in 1..Len(call.log) :
         (/\ call.log[i].kind = call.log[j].kind
          /\ call.log[i].basis = call.log[j].basis
          /\ SameEntity(call.log[i].kind,
                        <<call.log[i].elem, call.log[i].index>>,
                        <<call.log[j].elem, call.log[j].index>>))
           => i = j
    /\ NoDuplicates(call.dof)

\* ------------------------------------------------------------------------
\* BSRMat<T, M, N>: constructor
\* ------------------------------------------------------------------------

\* Content of the entries of vals before zero() or add_values.
ValJunk == {0, 7}

\* BSRMat(nbrows, nbcols, nnz, rowp_, cols_): rowp and cols are copied,
\* vals has nnz blocks of M rows and N columns.
BSRMat(M, N, nbrows_, nbcols_, nnz_, rowp_, cols_, junk) ==
  [built |-> TRUE, M |-> M, N |-> N,
   nbrows |-> nbrows_, nbcols |-> nbcols_, nnz |-> nnz_,
   rowp |-> For(LAMBDA a, i : Put(a, i, At(rowp_, i)),
                Fill(nbrows_ + 1, 0), 0, nbrows_ + 1),
   cols |-> For(LAMBDA a, i : Put(a, i, At(cols_, i)),
                Fill(nnz_, 0), 0, nnz_),
   vals |-> Fill(nnz_, Fill(M, Fill(N, junk)))]

\* ------------------------------------------------------------------------
\* ElementMesh::create_block_matrix<T, M>()
\* ------------------------------------------------------------------------

\* The block sizes M the function is instantiated with.
BlockSizes == {1, 2, 3}

\* The elements of a set of numbers, ascending (the order in which a
\* std::set is iterated).
Ascending(S) ==
  Array([k \in 1..Cardinality(S) |->
           CHOOSE x \in S : Cardinality({y \in S : y < x}) = k - 1])

\* A sequence of numbers sorted ascending.
SortAscending(a) ==
  Array([k \in 1..Len(a) |->
           CHOOSE v \in Range(a) :
             /\ Cardinality({i \in 1..Len(a) : a[i] < v}) < k
             /\ Cardinality({i \in 1..Len(a) : a[i] <= v}) >= k])

\* Mutant of ReduceElemDof: the row of the last slot of the element is not
\* stored.
ReduceElemDof_DropLast(i, M) ==
  For(LAMBDA red, j1 :
        IF j1 + 1 < ndof_per_element THEN
          IF At(element_dof, i * ndof_per_element + j1) \div M =
             At(element_dof, i * ndof_per_element + j1 + 1) \div M
          THEN red
          ELSE Append(red, At(element_dof, i * ndof_per_element + j1) \div M)
        ELSE red,
      <<>>, 0, ndof_per_element)

\* dof_reduced[0 .. n-1] of element i. The while loop moves j1 to the last
\* slot of a run of equal block rows, whose row is then stored: a slot
\* followed by a slot of the same block row stores nothing.
ReduceElemDof(i, M) ==
  For(LAMBDA red, j1 :
        IF /\ j1 + 1 < ndof_per_element
           /\ At(element_dof, i * ndof_per_element + j1) \div M =
              At(element_dof, i * ndof_per_element + j1 + 1) \div M
        THEN red
        ELSE Append(red, At(element_dof, i * ndof_per_element + j1) \div M),
      <<>>, 0, ndof_per_element)

\* Mutant of NodeSet: only the pairs with j1 <= j2 are inserted.
NodeSet_Upper(M) ==
  UNION { {<<r[j1], r[j2]>> : j1, j2 \in 1..Len(r)}
            \cap {p \in Nat \X Nat : p[1] <= p[2]} :
            r \in {ReduceElemDof(i, M) : i \in 0..(nelems - 1)} }

\* node_set after the loop over the elements.
NodeSet(M) ==
  UNION { {<<r[j1], r[j2]>> : j1, j2 \in 1..Len(r)} :
            r \in {ReduceElemDof(i, M) : i \in 0..(nelems - 1)} }

\* nrows = num_dof / M, one more if num_dof % M > 0.
BlockRows(M) ==
  IF num_dof % M > 0 THEN num_dof \div M + 1 ELSE num_dof \div M

\* rowp[it->first + 1] += 1 for every pair of node_set, from rowp = 0.
CountPairs(node_set, nrows) ==
  Array([k \in 1..(nrows + 1) |->
           Cardinality({p \in node_set : p[1] + 1 = k - 1})])

\* rowp[0] = 0; rowp[i + 1] += rowp[i]
RowPointers(rowp, nrows) ==
  For(LAMBDA a, i : Put(a, i + 1, At(a, i + 1) + At(a, i)),
      Put(rowp, 0, 0), 0, nrows)

\* Mutant of ScatterCols: rowp[it->first] is not advanced.
ScatterCols_NoAdvance(node_set, rowp, nrows) ==
  For(LAMBDA s, r :
        \* the second members of the pairs of row r, in the order of the set
        LET seconds == Ascending({p[2] : p \in {q \in node_set : q[1] = r}})
        IN For(LAMBDA t, k :
                 [t EXCEPT !.cols = Put(@, At(t.rowp, r), At(seconds, k))],
               s, 0, Len(seconds)),
      [rowp |-> rowp, cols |-> Fill(At(rowp, nrows), 0)], 0, nrows)

\* cols[rowp[it->first]] = it->second; rowp[it->first]++, for the pairs of
\* node_set in their order: by row, and by column within the row.
ScatterCols(node_set, rowp, nrows) ==
  For(LAMBDA s, r :
        \* the second members of the pairs of row r, in the order of the set
        LET seconds == Ascending({p[2] : p \in {q \in node_set : q[1] = r}})
        IN For(LAMBDA t, k :
                 [rowp |-> Put(t.rowp, r, At(t.rowp, r) + 1),
                  cols |-> Put(t.cols, At(t.rowp, r), At(seconds, k))],
               s, 0, Len(seconds)),
      [rowp |-> rowp, cols |-> Fill(At(rowp, nrows), 0)], 0, nrows)

\* for (i = nrows; i > 0; i--) rowp[i] = rowp[i - 1]; rowp[0] = 0
ResetRowPointers(rowp, nrows) ==
  Put(For(LAMBDA a, k : Put(a, nrows - k, At(a, nrows - k - 1)),
          rowp, 0, nrows),
      0, 0)

\* SortCSRData(nrows, rowp, cols): the column ids of every row, ascending.
SortCSRData(nrows, rowp, cols) ==
  For(LAMBDA c, r :
        SubSeq(c, 1, At(rowp, r))
          \o SortAscending(SubSeq(c, At(rowp, r) + 1, At(rowp, r + 1)))
          \o SubSeq(c, At(rowp, r + 1) + 1, Len(c)),
      cols, 0, nrows)

\* rowp and cols as create_block_matrix hands them to the constructor.
BlockPattern(node_set, nrows) ==
  LET counted == RowPointers(CountPairs(node_set, nrows), nrows)
      s == ScatterCols(node_set, counted, nrows)
      rowp == ResetRowPointers(s.rowp, nrows)
  IN [nnz |-> At(counted, nrows), rowp |-> rowp,
      cols |-> SortCSRData(nrows, rowp, s.cols)]

\* Every slot of element_dof holds the number of a DOF.
DofNumbered ==
  \A i \in 1..Len(element_dof) : element_dof[i] >= 0 /\ element_dof[i] < num_dof

\* mesh.create_block_matrix<T, M>(), on a mesh whose slots are all numbered
\* (with a slot left at NO_INDEX the loops write outside rowp).
CreateBlockMatrix ==
  /\ pc = "mesh"
  /\ DofNumbered
  /\ \E M \in BlockSizes :
       \E node_set \in {NodeSet(M)} :
         \E p \in {BlockPattern(node_set, BlockRows(M))} :
           \E junk \in ValJunk :
             /\ call' = [op |-> "create_block_matrix", M |-> M,
                         node_set |-> node_set]
             /\ mat' = BSRMat(M, M, BlockRows(M), BlockRows(M), p.nnz,
                              p.rowp, p.cols, junk)
  /\ pc' = "matrix"
  /\ UNCHANGED <<connVars, labelVars, dofVars, added, lorder>>

NextBlockMatrix ==
  \/ NextDof
  \/ CreateBlockMatrix

\* The constructors of the connectivity and of ElementMesh, then
\* create_block_matrix.
SpecBlockMatrix == InitClientMesh /\ [][NextBlockMatrix]_vars

\* C13: the block pattern built by create_block_matrix is the element
\* closure: (r, c) is in the pattern exactly when some element has a DOF d1
\* with d1 / M = r and a DOF d2 with d2 / M = c.
C13_PatternIsElementClosure ==
  pc = "matrix" =>
    call.node_set =
      UNION { {<<At(element_dof, e * ndof_per_element + k1) \div call.M,
                 At(element_dof, e * ndof_per_element + k2) \div call.M>> :
                 k1, k2 \in 0..(ndof_per_element - 1)} : e \in Elems }

\* C13 witness: an element has two consecutive slots in one block row (the
\* merge of the reduction loop acted) and two slots in different block rows.
C13_Witness ==
  /\ pc = "matrix"
  /\ \E e \in Elems : \E k \in 0..(ndof_per_element - 2) :
       /\ At(element_dof, e * ndof_per_element + k) \div call.M =
          At(element_dof, e * ndof_per_element + k + 1) \div call.M
       /\ \E k2 \in 0..(ndof_per_element - 1) :
            At(element_dof, e * ndof_per_element + k2) \div call.M #
            At(element_dof, e * ndof_per_element + k) \div call.M
  /\ nelems > 1

\* C14: the matrix of create_block_matrix is well formed: nbrows = nbcols =
\* ceil(num_dof / M); rowp has nbrows + 1 entries, starts at 0, does not
\* decrease and ends at nnz, the number of distinct pattern pairs; the column
\* ids of every row are strictly ascending and are the c with (r, c) in the
\* pattern.
C14_BlockMatrixWellFormed ==
  pc = "matrix" =>
    /\ mat.nbrows = mat.nbcols
    /\ mat.nbrows * mat.M >= num_dof
    /\ (mat.nbrows - 1) * mat.M < num_dof
    /\ Len(mat.rowp) = mat.nbrows + 1
    /\ At(mat.rowp, 0) = 0
    /\ \A r \in 0..(mat.nbrows - 1) : At(mat.rowp, r) <= At(mat.rowp, r + 1)
    /\ At(mat.rowp, mat.nbrows) = mat.nnz
    /\ mat.nnz = Cardinality(call.node_set)
    /\ Len(mat.cols) = mat.nnz
    /\ \A r \in 0..(mat.nbrows - 1) :
         /\ \A jp \in At(mat.rowp, r)..(At(mat.rowp, r + 1) - 2) :
              At(mat.cols, jp) < At(mat.cols, jp + 1)
         /\ {At(mat.cols, jp) :
               jp \in At(mat.rowp, r)..(At(mat.rowp, r + 1) - 1)}
              = {p[2] : p \in {q \in call.node_set : q[1] = r}}

\* C14 witness: a matrix of two elements whose last block row is partly
\* filled (num_dof is not a multiple of M) and with rows of different
\* lengths.
C14_Witness ==
  /\ pc = "matrix"
  /\ nelems > 1
  /\ num_dof % mat.M > 0
  /\ \E r1, r2 \in 0..(mat.nbrows - 1) :
       /\ At(mat.rowp, r1 + 1) - At(mat.rowp, r1) > 1
       /\ At(mat.rowp, r2 + 1) - At(mat.rowp, r2) >
          At(mat.rowp, r1 + 1) - At(mat.rowp, r1)

\* ------------------------------------------------------------------------
\* BSRMat<T, M, N>: find_value_index, add_values, zero_rows, to_dense
\* ------------------------------------------------------------------------

\* Number of block rows and of block columns of the matrices the operations
\* are run on, and largest number of add_values calls between two zero().
MaxBlockRows == 2
MaxAdds == 2

\* The block shapes <<M, N>>.
BlockShapes == {<<1, 1>>, <<2, 2>>, <<2, 1>>}

BlockCoords == (0..(MaxBlockRows - 1)) \X (0..(MaxBlockRows - 1))

\* The nonzero patterns: full, diagonal, lower and upper triangle, first
\* column with the diagonal, and without the diagonal.
Patterns ==
  { BlockCoords,
    {p \in BlockCoords : p[1] = p[2]},
    {p \in BlockCoords : p[2] <= p[1]},
    {p \in BlockCoords : p[1] <= p[2]},
    {p \in BlockCoords : p[2] = 0 \/ p[1] = p[2]},
    {p \in BlockCoords : p[1] # p[2]} }

\* vals(jp, ii, jj)
ValAt(vals, jp, ii, jj) == At(At(At(vals, jp), ii), jj)

\* Mutant of find_value_index: the search runs one entry past the row.
find_value_index_PastRow(m, row, col) ==
  First({jp \in At(m.rowp, row)..At(m.rowp, row + 1) :
           jp < m.nnz /\ At(m.cols, jp) = col},
        NO_INDEX)

\* find_value_index(row, col): the search of col within
\* cols[rowp[row] .. rowp[row + 1]), NO_INDEX if it is not there.
find_value_index(m, row, col) ==
  First({jp \in At(m.rowp, row)..(At(m.rowp, row + 1) - 1) :
           At(m.cols, jp) = col},
        NO_INDEX)

\* zero(): every entry of vals is 0.
ZeroVals(m) == Fill(m.nnz, Fill(m.M, Fill(m.N, 0)))

\* Mutant of AddEntry: the entry is overwritten.
AddEntry_Overwrite(m, vals, row, col, v) ==
  IF find_value_index(m, row \div m.M, col \div m.N) = NO_INDEX THEN vals
  ELSE [vals EXCEPT ![find_value_index(m, row \div m.M, col \div m.N) + 1]
                     [(row % m.M) + 1][(col % m.N) + 1] = v]

\* add_values, one entry: vals(jp, i % M, j % N) += mat(ii, jj) in the block
\* (i / M, j / N).
AddEntry(m, vals, row, col, v) ==
  IF find_value_index(m, row \div m.M, col \div m.N) = NO_INDEX THEN vals
  ELSE [vals EXCEPT ![find_value_index(m, row \div m.M, col \div m.N) + 1]
                     [(row % m.M) + 1][(col % m.N) + 1] = @ + v]

\* add_values(m, i, n, j, mat): the loops over the entries of mat.
add_values(m, i, j, elem) ==
  For(LAMBDA v, ii :
        For(LAMBDA w, jj :
              AddEntry(m, w, At(i, ii), At(j, jj), At(At(elem, ii), jj)),
            v, 0, Len(j)),
      m.vals, 0, Len(i))

\* add_values refers to a block outside the pattern.
OutsidePattern(m, i, j) ==
  \E ii \in 1..Len(i), jj \in 1..Len(j) :
    find_value_index(m, i[ii] \div m.M, j[jj] \div m.N) = NO_INDEX

\* Mutant of ZeroRow: the whole block row is zeroed.
ZeroRow_BlockRow(m, vals, row) ==
  Array([jp \in 1..m.nnz |->
           IF jp - 1 >= At(m.rowp, row \div m.M) /\
              jp - 1 < At(m.rowp, row \div m.M + 1)
           THEN Array([ii \in 1..m.M |->
                  Array([jj \in 1..m.N |->
                    IF /\ At(m.cols, jp - 1) = row \div m.M
                       /\ ii - 1 = row % m.M /\ jj - 1 = row % m.M
                    THEN 1 ELSE 0])])
           ELSE vals[jp]])

\* zero_rows, one global row: its values in every block of its block row
\* are zeroed, and the diagonal entry of the row in the diagonal block is 1.
ZeroRow(m, vals, row) ==
  Array([jp \in 1..m.nnz |->
           IF jp - 1 >= At(m.rowp, row \div m.M) /\
              jp - 1 < At(m.rowp, row \div m.M + 1)
           THEN Array([ii \in 1..m.M |->
                  IF ii - 1 = row % m.M
                  THEN Array([jj \in 1..m.N |->
                         IF /\ At(m.cols, jp - 1) = row \div m.M
                            /\ jj - 1 = row % m.M
                         THEN 1 ELSE 0])
                  ELSE vals[jp][ii]])
           ELSE vals[jp]])

\* zero_rows(nbcs, i)
zero_rows(m, i) ==
  For(LAMBDA v, ii : ZeroRow(m, v, At(i, ii)), m.vals, 0, Len(i))

\* to_dense(m_, n_, A_): the M nbrows x N nbcols matrix, row-major: zero,
\* and the blocks of vals at their places.
to_dense(m) ==
  [m |-> m.M * m.nbrows, n |-> m.N * m.nbcols,
   A |-> For(LAMBDA A, r :
               For(LAMBDA B, jp :
                     For(LAMBDA C, ii :
                           For(LAMBDA D, jj :
                                 Put(D,
                                     (m.M * r + ii) * (m.N * m.nbcols)
                                       + m.N * At(m.cols, jp) + jj,
                                     ValAt(m.vals, jp, ii, jj)),
                               C, 0, m.N),
                         B, 0, m.M),
                   A, At(m.rowp, r), At(m.rowp, r + 1)),
             Fill(m.M * m.nbrows * m.N * m.nbcols, 0), 0, m.nbrows)]

\* The lists of global indices of add_values and zero_rows: the first index,
\* the pair of the second and the first, and the last one twice.
IndexLists(n) == { <<0>>, <<1, 0>>, <<n - 1, n - 1>> }

\* The element matrix of shape (m, n) handed to add_values.
ElemMat(m, n) ==
  Array([ii \in 1..m |-> Array([jj \in 1..n |-> 2 * ii + jj - 2])])

\* A matrix was constructed on a pattern; vals is as it was allocated.
InitBSR ==
  /\ pc = "bsr"
  /\ InitMesh(EmptyMesh)
  /\ call = [op |-> "none"]
  /\ vert_labels = <<>>
  /\ edge_labels = <<>>
  /\ face_labels = <<>>
  /\ InitDof
  /\ \E P \in Patterns : \E sh \in BlockShapes : \E junk \in ValJunk :
       \E p \in {BlockPattern(P, MaxBlockRows)} :
         mat = BSRMat(sh[1], sh[2], MaxBlockRows, MaxBlockRows, p.nnz,
                      p.rowp, p.cols, junk)
  /\ added = <<>>
  /\ lorder = [built |-> FALSE]

BsrLive == pc \in {"bsr", "bsr_zeroed", "bsr_bc"}

\* mat.zero()
BsrZero ==
  /\ BsrLive
  /\ mat' = [mat EXCEPT !.vals = ZeroVals(mat)]
  /\ added' = <<>>
  /\ call' = [op |-> "zero"]
  /\ pc' = "bsr_zeroed"
  /\ UNCHANGED <<connVars, labelVars, dofVars, lorder>>

\* mat.find_value_index(row, col)
BsrFindValueIndex ==
  /\ pc = "bsr"
  /\ \E row \in 0..(mat.nbrows - 1), col \in 0..mat.nbcols :
       call' = [op |-> "find_value_index", row |-> row, col |-> col,
                jp |-> find_value_index(mat, row, col)]
  /\ UNCHANGED <<pc, connVars, labelVars, dofVars, objVars>>

\* mat.add_values(m, i, n, j, mat); the call fails when it refers to a
\* block outside the pattern.
BsrAddValues ==
  /\ pc \in {"bsr", "bsr_zeroed"}
  /\ Len(added) < MaxAdds
  /\ \E i \in IndexLists(mat.M * mat.nbrows) :
       \E j \in IndexLists(mat.N * mat.nbcols) :
         /\ mat' = [mat EXCEPT
                      !.vals = add_values(mat, i, j, ElemMat(Len(i), Len(j)))]
         /\ added' = Append(added, [i |-> i, j |-> j,
                                    mat |-> ElemMat(Len(i), Len(j))])
         /\ call' = [op |-> "add_values", i |-> i, j |-> j]
         /\ pc' = IF OutsidePattern(mat, i, j) THEN "bsr_failed" ELSE pc
  /\ UNCHANGED <<connVars, labelVars, dofVars, lorder>>

\* mat.zero_rows(nbcs, i), on a matrix with square blocks whose diagonal
\* blocks of the named rows are in the pattern.
BsrZeroRows ==
  /\ BsrLive
  /\ mat.M = mat.N
  /\ \E i \in IndexLists(mat.M * mat.nbrows) :
       /\ \A k \in 1..Len(i) :
            find_value_index(mat, i[k] \div mat.M, i[k] \div mat.M)
              # NO_INDEX
       /\ mat' = [mat EXCEPT !.vals = zero_rows(mat, i)]
       /\ call' = [op |-> "zero_rows", nbcs |-> Len(i), i |-> i,
                   before |-> mat]
  /\ pc' = "bsr_bc"
  /\ UNCHANGED <<connVars, labelVars, dofVars, added, lorder>>

\* mat.to_dense(&m, &n, &A)
BsrToDense ==
  /\ BsrLive
  /\ call' = [op |-> "to_dense", dense |-> to_dense(mat)]
  /\ UNCHANGED <<pc, connVars, labelVars, dofVars, objVars>>

NextBSR ==
  \/ BsrZero
  \/ BsrFindValueIndex
  \/ BsrAddValues
  \/ BsrZeroRows
  \/ BsrToDense

\* A BSRMat and the calls of its member functions.
SpecBSR == InitBSR /\ [][NextBSR]_vars

\* ------------------------------------------------------------------------
\* Properties of BSRMat
\* ------------------------------------------------------------------------

\* The block pairs rowp and cols declare.
PatternOf(m) ==
  UNION { {<<r, At(m.cols, jp)>> :
             jp \in At(m.rowp, r)..(At(m.rowp, r + 1) - 1)} :
          r \in 0..(m.nbrows - 1) }

\* C15: find_value_index returns NO_INDEX for every pair that is not in the
\* pattern, and for a pair in the pattern the jp with
\* rowp[row] <= jp < rowp[row + 1] and cols[jp] = col.
C15_FindValueIndex ==
  call.op = "find_value_index" =>
    IF <<call.row, call.col>> \in PatternOf(mat)
    THEN /\ At(mat.rowp, call.row) <= call.jp
         /\ call.jp < At(mat.rowp, call.row + 1)
         /\ At(mat.cols, call.jp) = call.col
    ELSE call.jp = NO_INDEX

\* C15 witness: a pair was found behind the first entry of its row, in a
\* matrix where the same column is missing from another row.
C15_Witness ==
  /\ call.op = "find_value_index"
  /\ call.jp # NO_INDEX
  /\ call.jp > At(mat.rowp, call.row)
  /\ \E r \in 0..(mat.nbrows - 1) : <<r, call.col>> \notin PatternOf(mat)

\* The sum of the entries of the element matrices that the add_values calls
\* since zero() addressed to the global position (gi, gj).
Contributed(gi, gj) ==
  For(LAMBDA sum, k :
        For(LAMBDA s1, ii :
              For(LAMBDA s2, jj :
                    IF At(added[k + 1].i, ii) = gi /\ At(added[k + 1].j, jj) = gj
                    THEN s2 + At(At(added[k + 1].mat, ii), jj)
                    ELSE s2,
                  s1, 0, Len(added[k + 1].j)),
            sum, 0, Len(added[k + 1].i)),
      0, 0, Len(added))

\* C16: from a zeroed matrix, after add_values calls whose pairs all lie in
\* the pattern, to_dense yields at (i, j) the sum of all contributions to
\* (i, j), zero elsewhere; the contributions are held accumulated in the
\* block (i / M, j / N) at the offsets (i % M, j % N).
C16_AddValuesThenDense ==
  (pc = "bsr_zeroed" /\ call.op = "to_dense") =>
    /\ call.dense.m = mat.M * mat.nbrows
    /\ call.dense.n = mat.N * mat.nbcols
    /\ Len(call.dense.A) = call.dense.m * call.dense.n
    /\ \A gi \in 0..(call.dense.m - 1), gj \in 0..(call.dense.n - 1) :
         /\ At(call.dense.A, gi * call.dense.n + gj) = Contributed(gi, gj)
         /\ <<gi \div mat.M, gj \div mat.N>> \in PatternOf(mat) =>
              ValAt(mat.vals,
                    find_value_index(mat, gi \div mat.M, gj \div mat.N),
                    gi % mat.M, gj % mat.N) = Contributed(gi, gj)

\* C16 witness: two add_values calls contributed to one position of a
\* matrix with blocks of more than one row, and another position of the
\* same block got nothing.
C16_Witness ==
  /\ pc = "bsr_zeroed"
  /\ call.op = "to_dense"
  /\ Len(added) = 2
  /\ mat.M > 1
  /\ \E gi \in 0..(call.dense.m - 1), gj \in 0..(call.dense.n - 1) :
       /\ Contributed(gi, gj) > added[1].mat[1][1]
       /\ Contributed(gi, gj) > added[2].mat[1][1]
       /\ At(call.dense.A, gi * call.dense.n + gj) = Contributed(gi, gj)
       /\ \E hi \in 0..(call.dense.m - 1) :
            /\ hi # gi
            /\ hi \div mat.M = gi \div mat.M
            /\ At(call.dense.A, hi * call.dense.n + gj) = 0

\* The global row gi of the matrix m, as the sequence of its stored values:
\* for every block of its block row, the row gi % M of the block.
StoredRow(m, gi) ==
  [jp \in At(m.rowp, gi \div m.M)..(At(m.rowp, gi \div m.M + 1) - 1) |->
     At(At(m.vals, jp), gi % m.M)]

\* C17: zero_rows makes every named global row all-zero except a 1 at its
\* diagonal position (in the diagonal block, at the offset row % M), leaves
\* every other global row unchanged, the other rows of the same block row
\* included, and does not change rowp and cols.
C17_ZeroRows ==
  call.op = "zero_rows" =>
    /\ mat.rowp = call.before.rowp
    /\ mat.cols = call.before.cols
    /\ \A gi \in 0..(mat.M * mat.nbrows - 1) :
         IF gi \in Range(call.i)
         THEN \A gj \in 0..(mat.N * mat.nbcols - 1) :
                At(to_dense(mat).A, gi * (mat.N * mat.nbcols) + gj) =
                  IF gj = gi THEN 1 ELSE 0
         ELSE StoredRow(mat, gi) = StoredRow(call.before, gi)

\* C17 witness: zero_rows named one row of a block row with two rows; the
\* named row held a nonzero value off the diagonal and the other row of the
\* block row holds nonzero values.
C17_Witness ==
  /\ call.op = "zero_rows"
  /\ mat.M = 2
  /\ \E gi \in Range(call.i) :
       /\ \E jp \in DOMAIN StoredRow(call.before, gi) :
            \E jj \in 0..(mat.N - 1) :
              /\ At(StoredRow(call.before, gi)[jp], jj) # 0
              /\ At(StoredRow(mat, gi)[jp], jj) = 0
       /\ \E gk \in 0..(mat.M * mat.nbrows - 1) :
            /\ gk \notin Range(call.i)
            /\ gk \div mat.M = gi \div mat.M
            /\ \E jp \in DOMAIN StoredRow(mat, gk) :
                 \E jj \in 0..(mat.N - 1) :
                   At(StoredRow(mat, gk)[jp], jj) \notin ValJunk

\* ------------------------------------------------------------------------
\* ElementMesh<Basis>(ElementMesh<HOrderBasis>& mesh, ElemProj& proj)
\* ------------------------------------------------------------------------

\* The projections of a high-order element with h DOF: what
\* get_num_projection_elements, get_projection_index(i, index) and
\* get_projection_signs(i, signs) return, and Basis::ndof of the low-order
\* basis. One sub-element with all DOF in reverse order and alternating
\* signs; two sub-elements of two DOF; three sub-elements of one DOF.
ProjChoices(h) ==
  { [nproj |-> 1, ndof |-> h,
     index |-> << Array([k \in 1..h |-> h - k]) >>,
     signs |-> << Array([k \in 1..h |-> IF k % 2 = 0 THEN -1 ELSE 1]) >>],
    [nproj |-> 2, ndof |-> 2,
     index |-> << <<0, h - 1>>, <<h - 1, h \div 2>> >>,
     signs |-> << <<1, -1>>, <<-1, -1>> >>],
    [nproj |-> 3, ndof |-> 1,
     index |-> << <<0>>, <<h \div 2>>, <<h - 1>> >>,
     signs |-> << <<1>>, <<-1>>, <<1>> >>] }

\* Mutant of DegradeSlot: the sign of the projection is dropped.
DegradeSlot_ParentSign(st, proj, j, i, k) ==
  [dof |-> Put(st.dof, proj.ndof * (i + j * proj.nproj) + k,
               At(element_dof,
                  j * ndof_per_element + At(At(proj.index, i), k))),
   sign |-> Put(st.sign, proj.ndof * (i + j * proj.nproj) + k,
                At(element_sign,
                   j * ndof_per_element + At(At(proj.index, i), k)))]

\* The body of the loop over k, for the parent j and the sub-element i:
\* elem = i + j * nproj; element_sign[ndof * elem + k] =
\* signs[k] * horder_signs[index[k]]; element_dof[ndof * elem + k] =
\* horder_dof[index[k]].
DegradeSlot(st, proj, j, i, k) ==
  [dof |-> Put(st.dof, proj.ndof * (i + j * proj.nproj) + k,
               At(element_dof,
                  j * ndof_per_element + At(At(proj.index, i), k))),
   sign |-> Put(st.sign, proj.ndof * (i + j * proj.nproj) + k,
                At(At(proj.signs, i), k) *
                At(element_sign,
                   j * ndof_per_element + At(At(proj.index, i), k)))]

\* The loops over the high-order elements j, the sub-elements i and the
\* slots k; the arrays are allocated, not initialized.
Degrade(proj, junk) ==
  For(LAMBDA s1, j :
        For(LAMBDA s2, i :
              For(LAMBDA s3, k : DegradeSlot(s3, proj, j, i, k),
                  s2, 0, proj.ndof),
            s1, 0, proj.nproj),
      [dof |-> Fill(proj.nproj * nelems * proj.ndof, junk),
       sign |-> Fill(proj.nproj * nelems * proj.ndof, junk)],
      0, nelems)

\* The constructor of the low-order mesh from the mesh built by
\* ElementMesh(conn).
ElementMeshDegrade ==
  /\ pc = "mesh"
  /\ \E proj \in ProjChoices(ndof_per_element) : \E junk \in IntJunk :
       \E d \in {Degrade(proj, junk)} :
         /\ lorder' = [built |-> TRUE,
                       nelems |-> proj.nproj * nelems,
                       num_dof |-> num_dof,
                       ndof_per_element |-> proj.ndof,
                       element_dof |-> d.dof,
                       element_sign |-> d.sign]
         /\ call' = [op |-> "ElementMesh(mesh, proj)", proj |-> proj]
  /\ pc' = "lorder"
  /\ UNCHANGED <<connVars, labelVars, dofVars, mat, added>>

NextDegrade ==
  \/ NextDof
  \/ ElementMeshDegrade

\* The constructors of the connectivity and of ElementMesh, then the
\* constructor of a low-order mesh.
SpecDegrade == InitClientMesh /\ [][NextDegrade]_vars

SweepLocals ==
  [ids |-> ids, stack |-> stack, next |-> call.next, level |-> call.level]

\* ids, stack, start = 0, end = 1, level = 0; stack[0] = 0; ids[0] = level.
SweepBegin ==
  /\ pc = "conn"
  /\ ids' = SweepStart.ids
  /\ stack' = SweepStart.stack
  /\ call' = [op |-> "sweep", at |-> "while", start |-> SweepStart.start,
              end |-> SweepStart.end, next |-> SweepStart.next,
              level |-> SweepStart.level, i |-> 0, j |-> 0]
  /\ pc' = "sweeping"
  /\ UNCHANGED <<connVars, objVars, labelVars, Basis, face_owners,
                 edge_owners, vert_owners, element_dof, element_sign,
                 num_dof, loop_basis, loop_counter, dof_counter, dof, dof_log>>

\* while (start < end) holds: next = end; level++; i = start.
SweepRound ==
  /\ pc = "sweeping"
  /\ call.at = "while"
  /\ call.start < call.end
  /\ call' = [call EXCEPT !.at = "for", !.next = call.end,
                          !.level = call.level + 1, !.i = call.start,
                          !.j = 0]
  /\ UNCHANGED <<pc, connVars, objVars, labelVars, dofVars>>

\* One pass of the loop over the faces j of stack[i]: both elements of the
\* face are looked at; behind the last face, the next i; behind the last
\* i, start = end; end = next.
SweepFace ==
  /\ pc = "sweeping"
  /\ call.at = "for"
  /\ IF call.i >= call.end THEN
       /\ call' = [call EXCEPT !.at = "while", !.start = call.end,
                               !.end = call.next]
       /\ UNCHANGED <<ids, stack>>
     ELSE IF call.j >= NumElemFaces(At(stack, call.i)) THEN
       /\ call' = [call EXCEPT !.i = call.i + 1, !.j = 0]
       /\ UNCHANGED <<ids, stack>>
     ELSE
       \E r \in {SweepVisit(
                   SweepVisit(SweepLocals,
                     get_face_elements(
                       GetFace(FaceArrays, At(stack, call.i), call.j))[1]),
                   get_face_elements(
                     GetFace(FaceArrays, At(stack, call.i), call.j))[2])} :
         /\ ids' = r.ids
         /\ stack' = r.stack
         /\ call' = [call EXCEPT !.next = r.next, !.j = call.j + 1]
  /\ UNCHANGED <<pc, connVars, objVars, labelVars, Basis, face_owners,
                 edge_owners, vert_owners, element_dof, element_sign,
                 num_dof, loop_basis, loop_counter, dof_counter, dof, dof_log>>

\* while (start < end) fails: the loop is left.
SweepEnd ==
  /\ pc = "sweeping"
  /\ call.at = "while"
  /\ ~(call.start < call.end)
  /\ pc' = "swept"
  /\ UNCHANGED <<connVars, clientVars>>

NextSweep ==
  \/ Next
  \/ SweepBegin
  \/ SweepRound
  \/ SweepFace
  \/ SweepEnd

\* The constructor of the connectivity, then the sweep of ElementMesh(conn).
\* The sweep is sequential code without suspension points: once it has
\* begun, the next round of the loop, or its exit, is taken.
SpecSweep ==
  /\ Init /\ [][NextSweep]_vars
  /\ WF_vars(SweepRound) /\ WF_vars(SweepFace) /\ WF_vars(SweepEnd)

\* The elements within k steps of element 0 across faces.
RECURSIVE SweepBall(_)
SweepBall(k) ==
  IF k = 0 THEN {0}
  ELSE SweepBall(k - 1) \cup UNION {FaceNeighbours(e) : e \in SweepBall(k - 1)}

\* The face-adjacency distance of e from element 0, NO_INDEX if there is no
\* path.
FaceDistance(e) == First({k \in 0..nelems : e \in SweepBall(k)}, NO_INDEX)

\* The result of the sweep is a breadth-first order from element 0.
SweepIsBFS ==
  /\ {At(stack, i) : i \in 0..(call.end - 1)} = FaceReachable({0})
  /\ call.end = Cardinality(FaceReachable({0}))
  /\ \A e \in Elems : At(ids, e) = FaceDistance(e)
  /\ \A i \in 0..(call.end - 2) :
       At(ids, At(stack, i)) <= At(ids, At(stack, i + 1))

\* C19: the sweep terminates and is a breadth-first traversal from element
\* 0 over face adjacency: every reachable element is entered exactly once,
\* at the level that is its distance from element 0, the levels do not
\* decrease along the order, and an unreachable element is never entered
\* (its level stays NO_INDEX).
C19_SweepTerminatesAsBFS ==
  /\ (pc = "sweeping") ~> (pc = "swept")
  /\ [](pc = "swept" => SweepIsBFS)
  /\ [][pc = "sweeping" =>
          \A e \in Elems : At(ids, e) # NO_INDEX => At(ids', e) = At(ids, e)]_vars

\* C19 witness: the sweep ended on a mesh of three elements with an element
\* at distance 2 from element 0.
C19_Witness ==
  /\ pc = "swept"
  /\ nelems = 3
  /\ \E e \in Elems : At(ids, e) = 2
  /\ call.end = 3

\* ------------------------------------------------------------------------
\* Properties of the orientations ElementMesh(conn) passes to the basis
\* ------------------------------------------------------------------------

\* The endpoints of the edge as its owner lists them: the owner's local
\* edge with the number of the edge.
OwnerEdgeVerts(edge) ==
  EdgeVertsOf(CHOOSE x \in LocalEdges :
                x[1] = At(edge_owners, edge) /\ EdgeIdOf(x) = edge)

\* C20: an element that borrows the DOF of an edge passes orientation 1
\* exactly when its endpoint order (v0, v1) is the reverse of the owner's
\* for that edge and 0 when the orders agree; the owner of an entity places
\* its DOF with orientation 0, and vertex DOF are placed with orientation 0.
C20_EdgeOrientation ==
  \A n \in 1..Len(dof_log) :
    /\ (dof_log[n].kind = "edge" /\ ~dof_log[n].owned) =>
         /\ dof_log[n].orient \in {0, 1}
         /\ dof_log[n].orient = 1 <=>
              /\ At(EdgeVertsOf(<<dof_log[n].elem, dof_log[n].index>>), 0) =
                 At(OwnerEdgeVerts(dof_log[n].entity), 1)
              /\ At(EdgeVertsOf(<<dof_log[n].elem, dof_log[n].index>>), 1) =
                 At(OwnerEdgeVerts(dof_log[n].entity), 0)
         /\ dof_log[n].orient = 0 <=>
              EdgeVertsOf(<<dof_log[n].elem, dof_log[n].index>>) =
                OwnerEdgeVerts(dof_log[n].entity)
    /\ dof_log[n].owned => dof_log[n].orient = 0
    /\ dof_log[n].kind = "vertex" => dof_log[n].orient = 0

\* C20 witness: the mesh is built, an edge was borrowed reversed and an edge
\* was borrowed in the owner's order, and a vertex was borrowed.
C20_Witness ==
  /\ MeshBuilt
  /\ \E n1, n2, n3 \in 1..Len(dof_log) :
       /\ dof_log[n1].kind = "edge" /\ ~dof_log[n1].owned
       /\ dof_log[n1].orient = 1
       /\ dof_log[n2].kind = "edge" /\ ~dof_log[n2].owned
       /\ dof_log[n2].orient = 0
       /\ dof_log[n3].kind = "vertex" /\ ~dof_log[n3].owned

\* ------------------------------------------------------------------------
\* Properties of the face numbers of init_face_data
\* ------------------------------------------------------------------------

\* C21: after init_face_data every element-local face has a global id other
\* than NO_LABEL; a triangular local face has an id in [0, ntri_faces), a
\* quadrilateral one an id in [ntri_faces, ntri_faces + nquad_faces); every
\* id in [0, nfaces) is carried by some element-local face, and
\* nfaces = ntri_faces + nquad_faces.
C21_FaceIdsPartitioned ==
  FacesBuilt =>
    /\ \A x \in LocalFaces :
         /\ FaceIdOf(x) # NO_LABEL
         /\ Len(FaceVertsOf(x)) = 3 =>
              (FaceIdOf(x) >= 0 /\ FaceIdOf(x) < ntri_faces)
         /\ Len(FaceVertsOf(x)) = 4 =>
              (FaceIdOf(x) >= ntri_faces /\
               FaceIdOf(x) < ntri_faces + nquad_faces)
    /\ \A f \in 0..(nfaces - 1) : \E x \in LocalFaces : FaceIdOf(x) = f
    /\ nfaces = ntri_faces + nquad_faces

\* C21 witness: a mesh with triangular and quadrilateral faces, some of
\* them shared by two elements, has its faces numbered.
C21_Witness ==
  /\ FacesBuilt
  /\ ntri_faces > 0
  /\ nquad_faces > 1
  /\ \E x, y \in LocalFaces :
       /\ x[1] # y[1]
       /\ FaceIdOf(x) = FaceIdOf(y)
       /\ Len(FaceVertsOf(x)) = 4
  /\ \E x, y \in LocalFaces :
       /\ x[1] # y[1]
       /\ FaceIdOf(x) = FaceIdOf(y)
       /\ Len(FaceVertsOf(x)) = 3

\* ------------------------------------------------------------------------
\* The clients on a mesh with more faces than edges
\* ------------------------------------------------------------------------

\* Ten tetrahedra on seven vertices, every face shared by at most two of
\* them and every element reachable from element 0 through faces:
\* 22 faces, 18 edges.
DenseTets ==
  << <<0, 3, 5, 6>>, <<3, 4, 5, 6>>, <<0, 4, 5, 6>>, <<0, 3, 4, 6>>,
     <<0, 1, 4, 5>>, <<0, 1, 3, 5>>, <<0, 1, 3, 4>>, <<2, 3, 4, 5>>,
     <<1, 2, 3, 4>>, <<1, 2, 3, 5>> >>

InitDenseMesh ==
  /\ pc = "new"
  /\ InitMesh([tets |-> DenseTets, hex |-> <<>>, wedge |-> <<>>,
               pyrmd |-> <<>>])
  /\ InitClients

\* A client reads an element through the accessors of the connectivity and
\* of ElementMesh (get_element_verts, get_element_faces, get_element_edges,
\* get_element_dof, get_element_signs).
AccessorQuery ==
  /\ pc = "mesh"
  /\ \E elem \in Elems :
       call' = [op |-> "get_element", elem |-> elem,
                verts |-> get_element_verts(elem),
                faces |-> get_element_faces(elem),
                edges |-> get_element_edges(elem),
                dof |-> Slice(element_dof, elem * ndof_per_element,
                              ndof_per_element),
                signs |-> Slice(element_sign, elem * ndof_per_element,
                                ndof_per_element)]
  /\ pc' = "query"
  /\ UNCHANGED <<connVars, objVars, labelVars, dofVars>>

NextClients ==
  \/ NextDof
  \/ AllocLabels
  \/ GetLabelsFromVerts
  \/ AccessorQuery
  \/ BoundaryConditionCtor
  \/ CreateBlockMatrix

\* The two constructors, then the operations of the clients.
SpecClientsDense == InitDenseMesh /\ [][NextClients]_vars

\* The connectivity is constructed; ElementMesh is constructed.
ConnConstructed ==
  pc \in {"conn", "labels_alloc", "labels", "sweep", "number", "mesh", "bc",
          "matrix", "query"}

MeshConstructed == pc \in {"mesh", "bc", "matrix", "query"}

\* C22: once the connectivity (and ElementMesh) is constructed, no later
\* operation changes the connectivity arrays or the per-element DOF and
\* sign arrays; get_labels_from_verts changes nothing but the label arrays
\* it is given, and the BoundaryCondition constructor writes nothing
\* outside its own label and output arrays.
C22_ClientsLeaveMeshUnchanged ==
  [][/\ ConnConstructed => UNCHANGED connVars
     /\ MeshConstructed => UNCHANGED <<element_dof, element_sign>>
     /\ (ConnConstructed /\ call' # call /\ call'.op = "get_labels_from_verts")
          => UNCHANGED <<dofVars, objVars>>
     /\ (ConnConstructed /\ call' # call /\ call'.op = "BoundaryCondition")
          => (UNCHANGED <<dofVars, objVars>> /\ call'.stray = {})]_vars

\* C25: when the BoundaryCondition constructor returns, the number of DOF
\* it wrote to boundary_dof is at most num_dof, the size of that buffer.
C25_CounterWithinBuffer == BcDone => call.ndof <= call.num_dof

\* ------------------------------------------------------------------------
\* ElementMesh(conn): the passes of the numbering loops
\* ------------------------------------------------------------------------

\* The passes of the counter loop of basis b that processed elem: every pass
\* starts by placing the volume DOF of its element.
Passes(b, elem) ==
  {i \in 1..Len(dof_log) :
     /\ dof_log[i].kind = "volume"
     /\ dof_log[i].basis = b
     /\ dof_log[i].elem = elem}

\* Every element is processed at most once in the sweep of each basis.
ProcessedAtMostOnce ==
  \A b \in Bases : \A elem \in Elems : Cardinality(Passes(b, elem)) <= 1

\* Two elements reachable from element 0 store the same DOF for a face,
\* edge or vertex both of them have.
ReachableShareDof ==
  \A R \in {FaceReachable({0})} :
    \A b \in Bases : \A kind \in SharedKinds :
      \A x \in LocalEntities(kind) : \A y \in LocalEntities(kind) :
        (/\ x[1] \in R /\ y[1] \in R
         /\ EntityIdOf(kind, x) = EntityIdOf(kind, y))
          => StoredDof(b, kind, x) = StoredDof(b, kind, y)

\* C23 (as stated): on any mesh, connected or not, the numbering loops
\* process each element at most once per basis, and two elements reachable
\* from element 0 store the same DOF for an entity they share.
C23_OncePerBasisAnyMesh ==
  MeshBuilt => (ProcessedAtMostOnce /\ ReachableShareDof)

\* C23 (amended): the same on a mesh in which every element is reachable
\* from element 0 through shared faces.
C23_OncePerBasisConnected ==
  (MeshBuilt /\ FaceConnected) => (ProcessedAtMostOnce /\ ReachableShareDof)

\* C23 witness: three connected elements and two bases; every element was
\* processed once per basis and a vertex DOF was borrowed.
C23_Witness ==
  /\ MeshBuilt /\ FaceConnected
  /\ nelems = 3
  /\ nbasis = 2
  /\ \A b \in Bases : \A elem \in Elems : Cardinality(Passes(b, elem)) = 1
  /\ \E i \in Borrowings : dof_log[i].kind = "vertex"

\* The placement e of the log copied DOF from the owner of its entity.
Borrowed(e) == ~e.owned /\ e.dof # <<>>

\* Before placement e was made, the log L held a pass of the sweep of e's
\* basis over owner, in which owner allocated the DOF of e's entity, and
\* these are the DOF e copied.
OwnerWasProcessed(L, e, owner) ==
  /\ \E j \in 1..Len(L) :
       /\ L[j].kind = "volume"
       /\ L[j].basis = e.basis
       /\ L[j].elem = owner
  /\ \E j \in 1..Len(L) :
       /\ L[j].owned
       /\ L[j].basis = e.basis
       /\ L[j].kind = e.kind
       /\ L[j].entity = e.entity
       /\ L[j].elem = owner
       /\ L[j].dof = e.dof
  /\ NO_INDEX \notin Range(e.dof)

\* C24: on a connected mesh, whenever a pass of the numbering loops copies
\* the DOF of a face, edge or vertex from the owner element for basis b,
\* the owner's pass for basis b is already over, and what is copied are the
\* DOF the owner allocated for that entity in basis b (never NO_INDEX, never
\* the DOF of another entity).
C24_OwnerProcessedBeforeBorrow ==
  [][(pc = "number" /\ FaceConnected) =>
       \A i \in (Len(dof_log) + 1)..Len(dof_log') :
         Borrowed(dof_log'[i]) =>
           OwnerWasProcessed(dof_log, dof_log'[i],
                             At(CASE dof_log'[i].kind = "face" -> face_owners'
                                  [] dof_log'[i].kind = "edge" -> edge_owners'
                                  [] OTHER -> vert_owners',
                                dof_log'[i].entity))]_vars

\* C24 witness: in the sweep of the second basis an element copied a vertex
\* DOF from the owner, after an edge was copied in the sweep of the first.
C24_Witness ==
  /\ pc = "number" /\ FaceConnected
  /\ loop_basis = 1
  /\ \E i \in Borrowings : dof_log[i].kind = "edge" /\ dof_log[i].basis = 0
  /\ \E i \in Borrowings : dof_log[i].kind = "vertex" /\ dof_log[i].basis = 1

\* C26: the pattern of the matrix create_block_matrix builds from a
\* connected mesh holds the diagonal block (r, r) of every block row r in
\* [0, nbrows), and holds (c, r) whenever it holds (r, c).
C26_PatternDiagonalSymmetric ==
  (pc = "matrix" /\ FaceConnected) =>
    \A P \in {PatternOf(mat)} :
      /\ \A r \in 0..(mat.nbrows - 1) : <<r, r>> \in P
      /\ \A p \in P : <<p[2], p[1]>> \in P

\* C26 witness: a connected mesh of two elements whose matrix has several
\* block rows, a pair off the diagonal, and a pair of rows that no element
\* couples.
C26_Witness ==
  /\ pc = "matrix" /\ FaceConnected
  /\ nelems = 2
  /\ mat.nbrows >= 3
  /\ \E p \in PatternOf(mat) : p[1] # p[2]
  /\ \E r, c \in 0..(mat.nbrows - 1) : <<r, c>> \notin PatternOf(mat)

\* ------------------------------------------------------------------------
\* HexProjection<degree, HOrderBasis, Basis>
\* ------------------------------------------------------------------------

\* Largest degree of the high-order hexahedron.
MaxDegree == 3

\* The spaces of the basis pair: HOrderBasis and Basis hold the same spaces,
\* of degree `degree` and of degree 1.
ProjBases ==
  { << [type |-> "H1", stride |-> 1] >>,
    << [type |-> "HDIV", stride |-> 1] >>,
    << [type |-> "L2", stride |-> 2], [type |-> "H1", stride |-> 1] >>,
    << [type |-> "HDIV", stride |-> 1], [type |-> "L2", stride |-> 1] >>,
    << [type |-> "HCURL", stride |-> 1], [type |-> "H1", stride |-> 1] >>,
    << [type |-> "H1", stride |-> 3], [type |-> "HDIV", stride |-> 1] >> }

\* The DOF of a space on the low-order hexahedron: 8 vertices, 12 edges,
\* 6 faces, 1 volume.
LoSpaceDof(sp) ==
  CASE sp.type = "H1" -> 8 * sp.stride
    [] sp.type = "HCURL" -> 12 * sp.stride
    [] sp.type = "HDIV" -> 6 * sp.stride
    [] sp.type = "L2" -> sp.stride

\* The DOF of a space on the hexahedron of order `order`.
HoSpaceDof(sp, order) ==
  CASE sp.type = "H1" -> order * order * order * sp.stride
    [] sp.type = "HCURL" -> 3 * order * order * (order - 1) * sp.stride
    [] sp.type = "HDIV" -> 3 * order * (order - 1) * (order - 1) * sp.stride
    [] sp.type = "L2" -> (order - 1) * (order - 1) * (order - 1) * sp.stride

\* static const index_t order = degree + 1
ProjOrder(proj) == proj.degree + 1

\* Basis::get_dof_offset<basis>() and HOrderBasis::get_dof_offset<basis>()
RECURSIVE get_dof_offset(_, _)
get_dof_offset(proj, basis) ==
  IF basis = 0 THEN 0
  ELSE get_dof_offset(proj, basis - 1) + LoSpaceDof(proj.basis[basis])

RECURSIVE get_horder_dof_offset(_, _)
get_horder_dof_offset(proj, basis) ==
  IF basis = 0 THEN 0
  ELSE get_horder_dof_offset(proj, basis - 1)
       + HoSpaceDof(proj.basis[basis], ProjOrder(proj))

\* Basis::ndof of the low-order basis
ProjNdof(proj) == get_dof_offset(proj, Len(proj.basis))

\* Basis::get_basis_type<basis>() and Basis::get_basis_stride<basis>()
get_basis_type(proj, basis) == proj.basis[basis + 1].type

get_basis_stride(proj, basis) == proj.basis[basis + 1].stride

get_num_projection_elements(proj) ==
  (ProjOrder(proj) - 1) * (ProjOrder(proj) - 1) * (ProjOrder(proj) - 1)

\* An output array (index[] or signs[]) with the positions written so far.
\* out[pos] = v
WriteOut(out, pos, v) ==
  [a |-> Put(out.a, pos, v), set |-> out.set \cup {pos}]

get_h1_index(proj, basis, i, j, k, index) ==
  LET stride == get_basis_stride(proj, basis)
      lo_offset == get_dof_offset(proj, basis)
      ho_offset == get_horder_dof_offset(proj, basis)
      order == ProjOrder(proj)
  IN For(LAMBDA s1, kk :
       For(LAMBDA s2, jj :
         For(LAMBDA s3, ii :
           For(LAMBDA s4, n :
                 WriteOut(s4, lo_offset + n + stride * (ii + 2 * (jj + 2 * kk)),
                          ho_offset + n
                          + stride * ((i + ii)
                                      + order * ((j + jj) + order * (k + kk)))),
               s3, 0, stride),
           s2, 0, 2),
         s1, 0, 2),
       index, 0, 2)

get_hdiv_index(proj, basis, i, j, k, index) ==
  LET lo_offset == get_dof_offset(proj, basis)
      ho_offset == get_horder_dof_offset(proj, basis)
      order == ProjOrder(proj)
      d0 == WriteOut(index, lo_offset,
                     ho_offset + i + order * (j + (order - 1) * k))
      d1 == WriteOut(d0, lo_offset + 1,
                     ho_offset + i + 1 + order * (j + (order - 1) * k))
      d2 == WriteOut(d1, lo_offset + 2,
                     ho_offset + i + (order - 1) * (j + (order - 1) * k)
                     + order * (order - 1) * (order - 1))
      d3 == WriteOut(d2, lo_offset + 3,
                     ho_offset + i + (order - 1) * (j + 1 + (order - 1) * k)
                     + order * (order - 1) * (order - 1))
      d4 == WriteOut(d3, lo_offset + 4,
                     ho_offset + i + (order - 1) * (j + (order - 1) * k)
                     + 2 * order * (order - 1) * (order - 1))
  IN WriteOut(d4, lo_offset + 5,
              ho_offset + i + (order - 1) * (j + (order - 1) * (k + 1))
              + 2 * order * (order - 1) * (order - 1))

get_l2_index(proj, basis, i, j, k, index) ==
  LET stride == get_basis_stride(proj, basis)
      lo_offset == get_dof_offset(proj, basis)
      ho_offset == get_horder_dof_offset(proj, basis)
      order == ProjOrder(proj)
  IN For(LAMBDA s, n :
           WriteOut(s, lo_offset + n,
                    ho_offset + n
                    + stride * (i + (order - 1) * (j + (order - 1) * k))),
         index, 0, stride)

get_h1_signs(proj, basis, i, j, k, signs) ==
  For(LAMBDA s, n : WriteOut(s, get_dof_offset(proj, basis) + n, 1),
      signs, 0, 8 * get_basis_stride(proj, basis))

\* Mutant of get_hdiv_signs: the lower faces get -1 on the boundary too.
get_hdiv_signs_LowerMinus(proj, basis, i, j, k, signs) ==
  LET lo_offset == get_dof_offset(proj, basis)
      s0 == WriteOut(signs, lo_offset, -1)
      s1 == WriteOut(s0, lo_offset + 1, 1)
      s2 == WriteOut(s1, lo_offset + 2, -1)
      s3 == WriteOut(s2, lo_offset + 3, 1)
      s4 == WriteOut(s3, lo_offset + 4, -1)
  IN WriteOut(s4, lo_offset + 5, 1)

get_hdiv_signs(proj, basis, i, j, k, signs) ==
  LET lo_offset == get_dof_offset(proj, basis)
      s0 == WriteOut(signs, lo_offset, IF i = 0 THEN 1 ELSE -1)
      s1 == WriteOut(s0, lo_offset + 1, 1)
      s2 == WriteOut(s1, lo_offset + 2, IF j = 0 THEN 1 ELSE -1)
      s3 == WriteOut(s2, lo_offset + 3, 1)
      s4 == WriteOut(s3, lo_offset + 4, IF k = 0 THEN 1 ELSE -1)
  IN WriteOut(s4, lo_offset + 5, 1)

get_l2_signs(proj, basis, i, j, k, signs) ==
  For(LAMBDA s, n : WriteOut(s, get_dof_offset(proj, basis) + n, 1),
      signs, 0, get_basis_stride(proj, basis))

\* get_projection_index_<basis>, from basis 0 to the last: the branch of
\* HCURL is empty.
get_projection_index_(proj, i, j, k, index) ==
  For(LAMBDA s, basis :
        CASE get_basis_type(proj, basis) = "H1" ->
               get_h1_index(proj, basis, i, j, k, s)
          [] get_basis_type(proj, basis) = "HCURL" -> s
          [] get_basis_type(proj, basis) = "HDIV" ->
               get_hdiv_index(proj, basis, i, j, k, s)
          [] get_basis_type(proj, basis) = "L2" ->
               get_l2_index(proj, basis, i, j, k, s),
      index, 0, Len(proj.basis))

get_projection_signs_(proj, i, j, k, signs) ==
  For(LAMBDA s, basis :
        CASE get_basis_type(proj, basis) = "H1" ->
               get_h1_signs(proj, basis, i, j, k, s)
          [] get_basis_type(proj, basis) = "HCURL" -> s
          [] get_basis_type(proj, basis) = "HDIV" ->
               get_hdiv_signs(proj, basis, i, j, k, s)
          [] get_basis_type(proj, basis) = "L2" ->
               get_l2_signs(proj, basis, i, j, k, s),
      signs, 0, Len(proj.basis))

\* i = n % degree; j = (n % (degree * degree)) / degree;
\* k = n / (degree * degree)
SubElementOf(degree, n) ==
  << n % degree, (n % (degree * degree)) \div degree,
     n \div (degree * degree) >>

get_projection_index(proj, n, index) ==
  IF Len(proj.basis) > 0 THEN
    get_projection_index_(proj, SubElementOf(proj.degree, n)[1],
                          SubElementOf(proj.degree, n)[2],
                          SubElementOf(proj.degree, n)[3], index)
  ELSE index

get_projection_signs(proj, n, signs) ==
  IF Len(proj.basis) > 0 THEN
    get_projection_signs_(proj, SubElementOf(proj.degree, n)[1],
                          SubElementOf(proj.degree, n)[2],
                          SubElementOf(proj.degree, n)[3], signs)
  ELSE signs

\* index_t index[ndof_per_element]; int signs[ndof_per_element]: local
\* arrays of the degradation constructor, not initialized.
UnsetArray(proj, junk) == [a |-> Fill(ProjNdof(proj), junk), set |-> {}]

\* Content of the two local arrays before the projection fills them.
ProjJunk == { <<0, 0>>, <<NO_INDEX, -1>> }

\* A projection object, and no sub-element handled yet.  call holds the
\* template arguments and what the loop over the sub-elements got so far.
InitProj ==
  /\ pc = "proj"
  /\ InitMesh(EmptyMesh)
  /\ vert_labels = <<>>
  /\ edge_labels = <<>>
  /\ face_labels = <<>>
  /\ InitDof
  /\ mat = [built |-> FALSE]
  /\ added = <<>>
  /\ lorder = [built |-> FALSE]
  /\ \E degree \in 1..MaxDegree : \E B \in ProjBases : \E junk \in ProjJunk :
       call = [op |-> "HexProjection", degree |-> degree, basis |-> B,
               junk |-> junk, next |-> 0,
               index |-> <<>>, signs |-> <<>>,
               index_set |-> <<>>, signs_set |-> <<>>]

\* One pass of the loop over the sub-elements i of the degradation
\* constructor: get_projection_index(i, index) and
\* get_projection_signs(i, signs) on the fresh local arrays, whose entries
\* the loop over k then reads.
ProjectSubElement ==
  /\ pc = "proj"
  /\ call.next < get_num_projection_elements(call)
  /\ \E ix \in {get_projection_index(call, call.next,
                                     UnsetArray(call, call.junk[1]))} :
       \E sg \in {get_projection_signs(call, call.next,
                                       UnsetArray(call, call.junk[2]))} :
         call' = [call EXCEPT !.next = @ + 1,
                              !.index = Append(@, ix.a),
                              !.signs = Append(@, sg.a),
                              !.index_set = Append(@, ix.set),
                              !.signs_set = Append(@, sg.set)]
  /\ UNCHANGED <<pc, connVars, labelVars, dofVars, objVars>>

NextProj == ProjectSubElement

\* The sub-elements of a high-order hexahedron, one after the other.
SpecProj == InitProj /\ [][NextProj]_vars

\* ------------------------------------------------------------------------
\* Properties of HexProjection
\* ------------------------------------------------------------------------

\* The sub-elements handled so far.
Projected == 0..(call.next - 1)

\* The bases of a type.
BasesOfType(t) ==
  {b \in 0..(Len(call.basis) - 1) : get_basis_type(call, b) = t}

\* The face of the sub-grid at local face slot s of sub-element n: its axis
\* and its grid position (slots 0, 1: the faces across x at i and i + 1;
\* 2, 3: across y at j and j + 1; 4, 5: across z at k and k + 1).
GridFace(n, s) ==
  << s \div 2,
     SubElementOf(call.degree, n)[1] + (IF s = 1 THEN 1 ELSE 0),
     SubElementOf(call.degree, n)[2] + (IF s = 3 THEN 1 ELSE 0),
     SubElementOf(call.degree, n)[3] + (IF s = 5 THEN 1 ELSE 0) >>

\* The face lies on the boundary of the parent element.
OnParentBoundary(f) == f[f[1] + 2] \in {0, call.degree}

\* The high-order index, within basis b, given to slot s of sub-element n.
HdivIndex(b, n, s) ==
  At(call.index[n + 1], get_dof_offset(call, b) + s)
    - get_horder_dof_offset(call, b)

HdivSign(b, n, s) == At(call.signs[n + 1], get_dof_offset(call, b) + s)

\* Indices per axis direction: order * (order - 1) * (order - 1).
DirectionBlock == ProjOrder(call) * call.degree * call.degree

\* C27: for an H(div) basis and each axis direction, two sub-element faces
\* get the same high-order index from get_hdiv_index exactly when they are
\* the same face of the sub-grid, and every index of a direction lies in
\* the block of order * (order - 1) * (order - 1) indices of that direction.
C27_HdivIndexPerFace ==
  pc = "proj" =>
    \A b \in BasesOfType("HDIV") : \A n1 \in Projected : \A s1 \in 0..5 :
      /\ HdivIndex(b, n1, s1) >= (s1 \div 2) * DirectionBlock
      /\ HdivIndex(b, n1, s1) < (s1 \div 2 + 1) * DirectionBlock
      /\ \A n2 \in Projected : \A s2 \in 0..5 :
           s1 \div 2 = s2 \div 2 =>
             ((HdivIndex(b, n1, s1) = HdivIndex(b, n2, s2))
                <=> (GridFace(n1, s1) = GridFace(n2, s2)))

\* C28: for a face shared by two neighbouring sub-elements get_hdiv_signs
\* gives +1 to the lower sub-element (its upper face) and -1 to the upper
\* sub-element (its lower face), and it gives +1 to every face on the
\* boundary of the parent element.
C28_HdivSignsOpposite ==
  pc = "proj" =>
    \A b \in BasesOfType("HDIV") : \A n1 \in Projected : \A s1 \in 0..5 :
      /\ OnParentBoundary(GridFace(n1, s1)) => HdivSign(b, n1, s1) = 1
      /\ \A n2 \in Projected \ {n1} : \A s2 \in 0..5 :
           (GridFace(n1, s1) = GridFace(n2, s2) /\ s1 % 2 = 1) =>
             /\ s2 % 2 = 0
             /\ HdivSign(b, n1, s1) = 1
             /\ HdivSign(b, n2, s2) = -1

\* C28 witness: all sub-elements of a hexahedron of degree 2 or more are
\* done; an inner face got +1 and -1 from its two sub-elements.
C28_Witness ==
  /\ pc = "proj"
  /\ call.degree >= 2
  /\ call.next = get_num_projection_elements(call)
  /\ \E b \in BasesOfType("HDIV") : \E n1, n2 \in Projected :
       /\ GridFace(n1, 3) = GridFace(n2, 2)
       /\ HdivSign(b, n1, 3) = 1
       /\ HdivSign(b, n2, 2) = -1

\* C29: for every sub-element, get_projection_index and
\* get_projection_signs write every entry of the output array, whatever the
\* types of the bases (H1, HCURL, HDIV, L2), so the degradation constructor
\* reads no entry that was not set; and n -> (i, j, k) is a bijection from
\* [0, degree^3) onto [0, degree)^3.
C29_EveryEntryWritten ==
  pc = "proj" =>
    /\ \A n \in Projected :
         /\ call.index_set[n + 1] = 0..(ProjNdof(call) - 1)
         /\ call.signs_set[n + 1] = 0..(ProjNdof(call) - 1)
    /\ \A c \in (0..(call.degree - 1)) \X (0..(call.degree - 1))
                  \X (0..(call.degree - 1)) :
         Cardinality({n \in 0..(get_num_projection_elements(call) - 1) :
                        SubElementOf(call.degree, n) = c}) = 1
====
